---- MODULE Spec2Model ----
(***************************************************************************)
(* A model of penny, a minimal headless browser engine.                    *)
(*                                                                         *)
(* Front end: the HTML lexer (src/dom/lexer.go), the DOM arena             *)
(* (src/dom/node.go) and the tree-building parser (src/dom/parser.go).     *)
(* Back end: the CSS lexer and parser and the style engine (package css),  *)
(* the layout tree and its geometry (src/layout), the paint list           *)
(* (src/paint) and the rasteriser.                                         *)
(*                                                                         *)
(* Go strings are TLA+ strings; s[i] is SubSeq(s, i+1, i+1).  Go slices    *)
(* are sequences; a NodeID n addresses Nodes[n + 1].  A float32 length is  *)
(* an integer number of pixels: the inputs of the model hold whole         *)
(* numbers only, and font sizes are even so that 1.5 times one is whole.   *)
(*                                                                         *)
(* The specifications share the variables:                                 *)
(*   Spec        the HTML parser driven by an arbitrary token stream       *)
(*   SpecLex     ParseString on a byte string, the lexer feeding the parser*)
(*   SpecCss     css.Parse on a byte string, one loop iteration a step     *)
(*   SpecRender  Renderer.Render: layout tree, geometry and paint list    *)
(*   SpecRaster  paint.Rasterize on a paint list, one op a step            *)
(*   SpecFlow    BuildLayoutTree and ComputeLayout on sibling elements     *)
(*   SpecStyle   computeStyle on an element, one declaration a step        *)
(*   SpecLoad    loadStylesheets of the CLI, one DOM node a step           *)
(***************************************************************************)
EXTENDS Integers, Sequences, FiniteSets, TLC

VARIABLES
    dom,        \* Parser.dom: [Nodes, Root]
    stack,      \* Parser.stack: the open elements, bottom first
    input,      \* Lexer.input
    pos,        \* Lexer.pos
    pc,         \* where the program is: "tokens" (Spec) | "lex" | "attrs" | "done"
                \* | "cssStart" | "cssRule" | "cssDecls" | "cssDone" (SpecCss)
                \* | "render" | "build" | "layout" | "background" | "paint"
                \* | "rendered" (SpecRender) | "raster" | "ops" | "rasterized"
                \* | "flow" (SpecFlow) | "style" | "rules" | "decls" | "styled"
                \* (SpecStyle) | "load" | "walk" | "loaded" (SpecLoad)
    cur,        \* the start tag being lexed: [tagName, attrs] (locals of startTag)
    iterPos,    \* attributes(): pos when its last iteration began, -1 before the first
    toks,       \* history: the tokens handed to the parser so far
    origin,     \* history: per node, the token that created it
    cssP,       \* css.Parser: [l (its Lexer), cur (its token), n (history: advances)]
    cssRules,   \* Parser.parse: the rules collected so far
    cssRule,    \* Parser.rule: [Selectors, Declarations] of the rule being parsed
    iterN,      \* history: cssP.n when the running iteration of the rule loop began
    cssParts,   \* history: the pieces the input of css.Parse was put together from
    doc,        \* Render: the DOM d
    stylesheet, \* Render: the stylesheet, [set, v]
    viewport,   \* Renderer: [Width, Height]
    layoutTree, \* Render: layoutTree, [Nodes, Root]
    paintList,  \* Render: paintList; Rasterize: list
    image,      \* Rasterize: img, [Rect, Stride, Pix]
    opIdx,      \* Rasterize: the place in list.Ops of the next op
    writes,     \* history: the pixel writes, [x, y, i] with i the offset in Pix
    loader,     \* loadStylesheets: [files, todo (the walk's pending nodes), allRules]
    cascade     \* computeStyle: [node, parent, sheet, r, d (the places in the rules
                \* and in the rule's declarations), style, before, applied
                \* (history: the style before the last ApplyDeclaration, and
                \* the declarations applied)]

domVars == <<dom, stack>>
lexVars == <<input, pos, cur, iterPos>>
frontVars == <<dom, stack, input, pos, cur, iterPos, toks, origin>>
cssVars == <<cssP, cssRules, cssRule, iterN, cssParts>>
pageVars == <<doc, stylesheet, viewport, layoutTree, paintList>>
rasterVars == <<image, opIdx, writes>>
auxVars == <<loader, cascade>>
backVars == <<cssVars, pageVars, rasterVars, auxVars>>
vars == <<dom, stack, input, pos, pc, cur, iterPos, toks, origin, backVars>>

\* The variables of a part of the program that a specification leaves out.
FrontIdle ==
    /\ dom = <<>> /\ stack = <<>> /\ input = "" /\ pos = 0 /\ cur = <<>>
    /\ iterPos = -1 /\ toks = <<>> /\ origin = <<>>
CssIdle ==
    cssP = <<>> /\ cssRules = <<>> /\ cssRule = <<>> /\ iterN = 0 /\ cssParts = <<>>
PageIdle ==
    doc = <<>> /\ stylesheet = <<>> /\ viewport = <<>> /\ layoutTree = <<>> /\ paintList = <<>>
RasterIdle ==
    image = <<>> /\ opIdx = 0 /\ writes = {}
AuxIdle ==
    loader = <<>> /\ cascade = <<>>
BackIdle == CssIdle /\ PageIdle /\ RasterIdle /\ AuxIdle

----
\* Bounds of the model.

\* Tokens handed to the parser in Spec.
MaxTokens == 3
\* Fragments an input of SpecLex is made of.
MaxFrags == 4
\* Declarations in a rule of an input of SpecCss.
MaxCssDecls == 2
\* Fragments a free input of SpecCss is made of.
MaxCssFrags == 3
\* Tokens the document of SpecRender is parsed from.
MaxDocTokens == 3
\* Rules in the stylesheet of SpecRender.
MaxSheetRules == 2
\* Ops in the paint list of SpecRaster.
MaxOps == 2
\* The largest width and height of the image of SpecRaster.
MaxDim == 2
\* Tokens the document of SpecFlow is parsed from.
MaxFlowTokens == 4
\* Rules in the stylesheet of SpecFlow.
MaxFlowRules == 2
\* Rules in the stylesheet of SpecStyle.
MaxStyleRules == 2
\* Tokens the document of SpecLoad is parsed from.
MaxLoadTokens == 3

----
\* src/dom/node.go

InvalidNodeID == -1

EmptyAttr == [k \in {} |-> ""]

NewDOM == [Nodes |-> <<>>, Root |-> InvalidNodeID]

\* The id CreateElement / CreateText is about to hand out.
NextID(d) == Len(d.Nodes)

CreateElement(d, tag) ==
    [d EXCEPT !.Nodes = Append(@, [ID |-> Len(d.Nodes), Type |-> "Element",
                                   Tag |-> tag, Attr |-> EmptyAttr, Text |-> "",
                                   Parent |-> InvalidNodeID, Children |-> <<>>])]

CreateText(d, text) ==
    [d EXCEPT !.Nodes = Append(@, [ID |-> Len(d.Nodes), Type |-> "Text",
                                   Tag |-> "", Attr |-> EmptyAttr, Text |-> text,
                                   Parent |-> InvalidNodeID, Children |-> <<>>])]

AppendChildNoList(d, parent, child) ==
    [d EXCEPT !.Nodes[child + 1].Parent = parent]

\* AppendChild, were the child put at the front of the list
AppendChildFirst(d, parent, child) ==
    [d EXCEPT !.Nodes[parent + 1].Children = <<child>> \o @,
              !.Nodes[child + 1].Parent = parent]

AppendChild(d, parent, child) ==
    [d EXCEPT !.Nodes[parent + 1].Children = Append(@, child),
              !.Nodes[child + 1].Parent = parent]

SetAttributeFirstWins(d, nodeID, key, value) ==
    IF key \in DOMAIN d.Nodes[nodeID + 1].Attr THEN d
    ELSE [d EXCEPT !.Nodes[nodeID + 1].Attr =
             [k \in (DOMAIN @) \cup {key} |-> IF k = key THEN value ELSE @[k]]]

SetAttribute(d, nodeID, key, value) ==
    [d EXCEPT !.Nodes[nodeID + 1].Attr =
        [k \in (DOMAIN @) \cup {key} |-> IF k = key THEN value ELSE @[k]]]

\* GetNode(id) != nil
HasNode(d, id) == ~(id < 0 \/ id >= Len(d.Nodes))

\* *GetNode(id), where it is not nil
GetNode(d, id) == d.Nodes[id + 1]

----
\* src/dom/parser.go

isVoidElement(tag) ==
    tag \in {"area", "base", "br", "col", "embed", "hr", "img", "input",
             "link", "meta", "param", "source", "track", "wbr"}

isBodyContent(tag) ==
    tag \in {"p", "div", "span", "h1", "h2", "h3", "h4", "h5", "h6",
             "ul", "ol", "li", "dl", "dt", "dd",
             "table", "tr", "td", "th", "thead", "tbody", "tfoot",
             "form", "fieldset", "legend", "label", "button", "select",
             "option", "textarea",
             "article", "section", "nav", "aside", "header", "footer", "main",
             "figure", "figcaption", "blockquote", "pre", "code",
             "a", "strong", "em", "b", "i", "u", "s", "small", "mark", "sub",
             "sup",
             "img", "video", "audio", "canvas", "svg", "iframe"}

isHeadContent(tag) ==
    tag \in {"title", "meta", "link", "style", "script", "base"}

\* A Parser value: [dom, stack].
NewParser == [dom |-> NewDOM, stack |-> <<>>]

currentParent(p) ==
    IF Len(p.stack) = 0 THEN InvalidNodeID ELSE p.stack[Len(p.stack)]

\* hasTagInStack, were only the top of the stack looked at
hasTagOnTop(p, tag) ==
    /\ Len(p.stack) > 0
    /\ HasNode(p.dom, p.stack[Len(p.stack)])
    /\ GetNode(p.dom, p.stack[Len(p.stack)]).Tag = tag

hasTagInStack(p, tag) ==
    \E i \in 1..Len(p.stack) :
        HasNode(p.dom, p.stack[i]) /\ GetNode(p.dom, p.stack[i]).Tag = tag

\* The loop of closeHead and of handleEndTag: for i := len(stack)-1 .. 0, at the
\* first node that has the tag, stack = stack[:i].
RECURSIVE popThrough(_, _, _)
popThrough(p, tag, i) ==
    IF i < 0 THEN p.stack
    ELSE IF HasNode(p.dom, p.stack[i + 1]) /\ GetNode(p.dom, p.stack[i + 1]).Tag = tag
         THEN SubSeq(p.stack, 1, i)
         ELSE popThrough(p, tag, i - 1)

\* parent := p.currentParent(); if parent != InvalidNodeID { AppendChild(parent, id) }
attach(d, parent, id) ==
    IF parent # InvalidNodeID THEN AppendChild(d, parent, id) ELSE d

\* Create an element, append it to the current parent if there is one, push it:
\* the body of the two "if !hasTagInStack" blocks that open <head> and <body>.
openElement(p, tag) ==
    [dom |-> attach(CreateElement(p.dom, tag), currentParent(p), NextID(p.dom)),
     stack |-> Append(p.stack, NextID(p.dom))]

ensureHtmlNoRoot(p) ==
    IF ~hasTagInStack(p, "html") /\ p.dom.Root = InvalidNodeID
    THEN [dom |-> CreateElement(p.dom, "html"),
          stack |-> Append(p.stack, NextID(p.dom))]
    ELSE p

\* The "Create <html> if not present" block of ensureHtmlHead / ensureHtmlBody.
ensureHtml(p) ==
    IF ~hasTagInStack(p, "html") /\ p.dom.Root = InvalidNodeID
    THEN [dom |-> [CreateElement(p.dom, "html") EXCEPT !.Root = NextID(p.dom)],
          stack |-> Append(p.stack, NextID(p.dom))]
    ELSE p

\* The "Create <head> if not present" block.
openHead(p) == IF ~hasTagInStack(p, "head") THEN openElement(p, "head") ELSE p

ensureHtmlHead(p) == openHead(ensureHtml(p))

\* closeHead, were the <head> alone taken off the stack
closeHeadOnly(p) ==
    [p EXCEPT !.stack = popThrough(p, "head", Len(p.stack) - 1)
                        \o SubSeq(p.stack, Len(popThrough(p, "head", Len(p.stack) - 1)) + 2,
                                  Len(p.stack))]

closeHead(p) == [p EXCEPT !.stack = popThrough(p, "head", Len(p.stack) - 1)]

closeOpenHeadNever(p) == p

\* The "Close <head> if it's open" block.
closeOpenHead(p) == IF hasTagInStack(p, "head") THEN closeHead(p) ELSE p

\* The "Create <body> if not present" block.
openBody(p) == IF ~hasTagInStack(p, "body") THEN openElement(p, "body") ELSE p

ensureHtmlBody(p) == openBody(closeOpenHead(ensureHtml(p)))

\* for _, attr := range tok.Attributes { SetAttribute(nodeID, attr.Key, attr.Value) }
RECURSIVE setAttributes(_, _, _)
setAttributes(d, nodeID, attrs) ==
    IF attrs = <<>> THEN d
    ELSE setAttributes(SetAttribute(d, nodeID, Head(attrs).Key, Head(attrs).Value),
                       nodeID, Tail(attrs))

\* "Auto-insert html/head for head content elements"
autoHead(p, tag) ==
    IF isHeadContent(tag) /\ ~hasTagInStack(p, "head") /\ ~hasTagInStack(p, "body")
    THEN ensureHtmlHead(p) ELSE p

\* "Auto-insert html/body for body content elements"
autoBody(p, tag) ==
    IF isBodyContent(tag) /\ ~hasTagInStack(p, "body") THEN ensureHtmlBody(p) ELSE p

setRootAlways(d, nodeID) == [d EXCEPT !.Root = nodeID]

\* "Set root if not set"
setRoot(d, nodeID) ==
    IF d.Root = InvalidNodeID THEN [d EXCEPT !.Root = nodeID] ELSE d

\* Create the token's element, set its attributes, append it to the current
\* parent, make it the root if there is none.
createElement(p, tok) ==
    [dom |-> setRoot(attach(setAttributes(CreateElement(p.dom, tok.Data),
                                          NextID(p.dom), tok.Attributes),
                            currentParent(p), NextID(p.dom)),
                     NextID(p.dom)),
     stack |-> p.stack]

\* What handleStartTag and handleSelfClosingTag have in common: all of
\* handleSelfClosingTag, and handleStartTag up to its push.
insertElement(p, tok) ==
    createElement(autoBody(autoHead(p, tok.Data), tok.Data), tok)

pushElementAlways(p, tag) == [p EXCEPT !.stack = Append(@, Len(p.dom.Nodes) - 1)]

\* "Push to stack (for non-void elements)": the element is the last node created.
pushElement(p, tag) ==
    IF ~isVoidElement(tag) THEN [p EXCEPT !.stack = Append(@, Len(p.dom.Nodes) - 1)]
    ELSE p

handleStartTag(p, tok) == pushElement(insertElement(p, tok), tok.Data)

RECURSIVE popThroughLowest(_, _, _)
popThroughLowest(p, tag, i) ==
    IF i >= Len(p.stack) THEN p.stack
    ELSE IF HasNode(p.dom, p.stack[i + 1]) /\ GetNode(p.dom, p.stack[i + 1]).Tag = tag
         THEN SubSeq(p.stack, 1, i)
         ELSE popThroughLowest(p, tag, i + 1)

handleEndTagLowest(p, tok) == [p EXCEPT !.stack = popThroughLowest(p, tok.Data, 0)]

handleEndTag(p, tok) ==
    [p EXCEPT !.stack = popThrough(p, tok.Data, Len(p.stack) - 1)]

handleSelfClosingTag(p, tok) == insertElement(p, tok)

\* unicode.IsSpace on an ASCII byte (the vertical tab has no TLA+ escape).
isSpace(ch) == ch \in {" ", "\t", "\n", "\f", "\r"}

RECURSIVE TrimLeft(_)
TrimLeft(s) ==
    IF Len(s) > 0 /\ isSpace(SubSeq(s, 1, 1)) THEN TrimLeft(SubSeq(s, 2, Len(s)))
    ELSE s

RECURSIVE TrimRight(_)
TrimRight(s) ==
    IF Len(s) > 0 /\ isSpace(SubSeq(s, Len(s), Len(s)))
    THEN TrimRight(SubSeq(s, 1, Len(s) - 1))
    ELSE s

\* strings.TrimSpace
TrimSpace(s) == TrimRight(TrimLeft(s))

createText(p, text) ==
    [p EXCEPT !.dom = attach(CreateText(p.dom, text), currentParent(p),
                             NextID(p.dom))]

handleText(p, tok) ==
    IF TrimSpace(tok.Data) = "" THEN p ELSE createText(p, TrimSpace(tok.Data))

\* The switch of Parser.parse on a token that is not EOF.
handleToken(p, tok) ==
    CASE tok.Type = "StartTag" -> handleStartTag(p, tok)
      [] tok.Type = "EndTag" -> handleEndTag(p, tok)
      [] tok.Type = "SelfClosingTag" -> handleSelfClosingTag(p, tok)
      [] tok.Type = "Text" -> handleText(p, tok)
      [] OTHER -> p

----
\* src/dom/lexer.go

\* peek() returns byte 0 at the end of the input; the inputs hold no NUL byte.
NUL == ""

Min(a, b) == IF a < b THEN a ELSE b

\* A Lexer value: [input, pos].
NewLexer(s) == [input |-> s, pos |-> 0]

peek(l) ==
    IF l.pos >= Len(l.input) THEN NUL ELSE SubSeq(l.input, l.pos + 1, l.pos + 1)

peekN(l, n) == SubSeq(l.input, l.pos + 1, Min(l.pos + n, Len(l.input)))

\* advance(), for its effect on pos
advance(l) == IF l.pos >= Len(l.input) THEN l ELSE [l EXCEPT !.pos = @ + 1]

\* l.input[from:to]
Slice(l, from, to) == SubSeq(l.input, from + 1, to)

RECURSIVE skipWhitespace(_)
skipWhitespace(l) ==
    IF l.pos < Len(l.input) /\ isSpace(peek(l))
    THEN skipWhitespace([l EXCEPT !.pos = @ + 1])
    ELSE l

Lower == {"a", "b", "c", "d", "e", "f", "g", "h", "i", "j", "k", "l", "m",
          "n", "o", "p", "q", "r", "s", "t", "u", "v", "w", "x", "y", "z"}

Upper == {"A", "B", "C", "D", "E", "F", "G", "H", "I", "J", "K", "L", "M",
          "N", "O", "P", "Q", "R", "S", "T", "U", "V", "W", "X", "Y", "Z"}

Digit == {"0", "1", "2", "3", "4", "5", "6", "7", "8", "9"}

\* unicode.IsLetter / unicode.IsDigit on an ASCII byte
IsLetter(ch) == ch \in Lower \cup Upper

IsDigit(ch) == ch \in Digit

LowerPairs ==
    <<"Aa", "Bb", "Cc", "Dd", "Ee", "Ff", "Gg", "Hh", "Ii", "Jj", "Kk", "Ll", "Mm",
      "Nn", "Oo", "Pp", "Qq", "Rr", "Ss", "Tt", "Uu", "Vv", "Ww", "Xx", "Yy", "Zz">>

ToLowerByte(ch) ==
    IF ch \in Upper
    THEN LET i == CHOOSE j \in 1..Len(LowerPairs) : SubSeq(LowerPairs[j], 1, 1) = ch
         IN  SubSeq(LowerPairs[i], 2, 2)
    ELSE ch

\* strings.ToLower on an ASCII string
RECURSIVE ToLower(_)
ToLower(s) ==
    IF s = "" THEN ""
    ELSE ToLowerByte(SubSeq(s, 1, 1)) \o ToLower(SubSeq(s, 2, Len(s)))

\* Each lexing function returns the lexer after it and, where it has one, its
\* result: [l, tok], [l, name], [l, attr], [l, value].

RECURSIVE textEnd(_)
textEnd(l) ==
    IF l.pos < Len(l.input) /\ peek(l) # "<" THEN textEnd([l EXCEPT !.pos = @ + 1])
    ELSE l

text(l) ==
    LET e == textEnd(l)
    IN  [l |-> e, tok |-> [Type |-> "Text", Data |-> Slice(l, l.pos, e.pos),
                           Attributes |-> <<>>]]

RECURSIVE commentScan(_, _)
commentScan(l, start) ==
    IF l.pos < Len(l.input)
    THEN IF peekN(l, 3) = "-->"
         THEN [l |-> [l EXCEPT !.pos = @ + 3],
               tok |-> [Type |-> "Comment", Data |-> Slice(l, start, l.pos),
                        Attributes |-> <<>>]]
         ELSE commentScan([l EXCEPT !.pos = @ + 1], start)
    ELSE [l |-> l, tok |-> [Type |-> "Comment",
                            Data |-> Slice(l, start, Len(l.input)),
                            Attributes |-> <<>>]]

comment(l) == commentScan(l, l.pos)

RECURSIVE doctypeEnd(_)
doctypeEnd(l) ==
    IF l.pos < Len(l.input) /\ peek(l) # ">" THEN doctypeEnd([l EXCEPT !.pos = @ + 1])
    ELSE l

doctype(l) ==
    LET s == skipWhitespace(l)
        e == doctypeEnd(s)
        content == TrimSpace(Slice(l, s.pos, e.pos))
    IN  [l |-> IF peek(e) = ">" THEN advance(e) ELSE e,
         tok |-> [Type |-> "Doctype", Data |-> content, Attributes |-> <<>>]]

RECURSIVE tagNameEnd(_)
tagNameEnd(l) ==
    IF l.pos < Len(l.input)
       /\ (IsLetter(peek(l)) \/ IsDigit(peek(l)) \/ peek(l) = "-" \/ peek(l) = "_")
    THEN tagNameEnd([l EXCEPT !.pos = @ + 1])
    ELSE l

tagName(l) ==
    LET e == tagNameEnd(l)
    IN  [l |-> e, name |-> ToLower(Slice(l, l.pos, e.pos))]

endTag(l) ==
    LET n == tagName(skipWhitespace(l))
        s == skipWhitespace(n.l)
    IN  [l |-> IF peek(s) = ">" THEN advance(s) ELSE s,
         tok |-> [Type |-> "EndTag", Data |-> n.name, Attributes |-> <<>>]]

RECURSIVE quotedEnd(_, _)
quotedEnd(l, quote) ==
    IF l.pos < Len(l.input) /\ peek(l) # quote
    THEN quotedEnd([l EXCEPT !.pos = @ + 1], quote)
    ELSE l

RECURSIVE unquotedEnd(_)
unquotedEnd(l) ==
    IF l.pos < Len(l.input) /\ ~(isSpace(peek(l)) \/ peek(l) = ">" \/ peek(l) = "/")
    THEN unquotedEnd([l EXCEPT !.pos = @ + 1])
    ELSE l

attributeValue(l) ==
    LET quote == peek(l)
    IN  IF quote = "\"" \/ quote = "'"
        THEN LET o == advance(l)
                 e == quotedEnd(o, quote)
             IN  [l |-> IF peek(e) = quote THEN advance(e) ELSE e,
                  value |-> Slice(l, o.pos, e.pos)]
        ELSE LET e == unquotedEnd(l)
             IN  [l |-> e, value |-> Slice(l, l.pos, e.pos)]

RECURSIVE attrNameEnd(_)
attrNameEnd(l) ==
    IF l.pos < Len(l.input)
       /\ (IsLetter(peek(l)) \/ IsDigit(peek(l)) \/ peek(l) = "-" \/ peek(l) = "_"
           \/ peek(l) = ":")
    THEN attrNameEnd([l EXCEPT !.pos = @ + 1])
    ELSE l

attribute(l) ==
    LET e == attrNameEnd(l)
        name == ToLower(Slice(l, l.pos, e.pos))
    IN  IF name = "" THEN [l |-> e, attr |-> [Key |-> "", Value |-> ""]]
        ELSE LET s == skipWhitespace(e)
             IN  IF peek(s) # "=" THEN [l |-> s, attr |-> [Key |-> name, Value |-> ""]]
                 ELSE LET v == attributeValue(skipWhitespace(advance(s)))
                      IN  [l |-> v.l, attr |-> [Key |-> name, Value |-> v.value]]

\* The test that leaves the loop of attributes(), after its skipWhitespace.
attributesDone(l) == l.pos >= Len(l.input) \/ peek(l) = ">" \/ peek(l) = "/"

\* startTag() from the return of attributes() on.
startTagEnd(l, name, attrs) ==
    LET s == skipWhitespace(l)
    IN  IF peek(s) = "/"
        THEN LET s2 == skipWhitespace(advance(s))
             IN  [l |-> IF peek(s2) = ">" THEN advance(s2) ELSE s2,
                  tok |-> [Type |-> "SelfClosingTag", Data |-> name,
                           Attributes |-> attrs]]
        ELSE [l |-> IF peek(s) = ">" THEN advance(s) ELSE s,
              tok |-> [Type |-> "StartTag", Data |-> name, Attributes |-> attrs]]

\* Which branch tag() takes, with the lexer past the "<".
tagKind(l) ==
    IF peekN(l, 3) = "!--" THEN "comment"
    ELSE IF peekN(l, 8) = "!DOCTYPE" \/ peekN(l, 8) = "!doctype" THEN "doctype"
    ELSE IF peek(l) = "/" THEN "endTag"
    ELSE "startTag"

----
\* The token streams of Spec.

Tags == {"html", "head", "body", "title", "link", "div", "img", "br"}

\* The start tags (and self-closing tags): each tag bare, and two with attributes.
TagForms ==
    {[Data |-> t, Attributes |-> <<>>] : t \in Tags}
    \cup {[Data |-> "link",
           Attributes |-> <<[Key |-> "rel", Value |-> "a"],
                            [Key |-> "href", Value |-> "x"],
                            [Key |-> "rel", Value |-> "stylesheet"]>>],
          [Data |-> "div", Attributes |-> <<[Key |-> "class", Value |-> "c"]>>]}

Texts == {" T ", " "}

\* The inputs of SpecLex: the strings made of at most n of these fragments.
Frags == {"<", ">", "/", "p", "T", " ", "=", "\"", ":", "!--", "-->", "!DOCTYPE"}

RECURSIVE Inputs(_)
Inputs(n) ==
    IF n = 0 THEN {""}
    ELSE LET S == Inputs(n - 1) IN S \cup {s \o f : s \in S, f \in Frags}

----
\* History.

\* The open elements that a token of the input created.
InputDepth == Cardinality({i \in 1..Len(stack) : ~origin[stack[i] + 1].synth})

\* The origin of the n nodes a token creates: the token's own node is the last
\* one, the ones before it were synthesised.  tok: the token's place in toks;
\* depth, open: InputDepth and the height of the stack when the token arrived.
NewOrigins(n) ==
    [i \in 1..n |-> [tok |-> Len(toks) + 1, synth |-> i < n, depth |-> InputDepth,
                     open |-> Len(stack)]]

----
\* Parser.parse: one iteration of its loop hands one token to the parser.

Deliver(tok) ==
    LET q == handleToken([dom |-> dom, stack |-> stack], tok)
    IN  /\ dom' = q.dom
        /\ stack' = q.stack
        /\ toks' = Append(toks, tok)
        /\ origin' = origin \o NewOrigins(Len(q.dom.Nodes) - Len(dom.Nodes))
        /\ UNCHANGED backVars

NoTag == [tagName |-> "", attrs |-> <<>>]

InitParser ==
    /\ dom = NewDOM
    /\ stack = <<>>
    /\ toks = <<>>
    /\ origin = <<>>
    /\ cur = NoTag
    /\ iterPos = -1
    /\ pos = 0
    /\ BackIdle

\* Spec: the lexer is left out, the tokens are arbitrary.  The EOF token may come
\* after any token and only ends the loop: every state is a possible final one.
Init == InitParser /\ input = "" /\ pc = "tokens"

\* The type of the last token handed to the parser.
LastType == IF toks = <<>> THEN "none" ELSE toks[Len(toks)].Type

MoreTokens == pc = "tokens" /\ Len(toks) < MaxTokens

TokStartTag ==
    /\ MoreTokens
    /\ \E f \in TagForms :
           Deliver([Type |-> "StartTag", Data |-> f.Data, Attributes |-> f.Attributes])
    /\ UNCHANGED <<input, pos, pc, cur, iterPos>>

TokEndTag ==
    /\ MoreTokens
    /\ \E tag \in Tags :
           Deliver([Type |-> "EndTag", Data |-> tag, Attributes |-> <<>>])
    /\ UNCHANGED <<input, pos, pc, cur, iterPos>>

TokSelfClosingTag ==
    /\ MoreTokens
    /\ \E f \in TagForms :
           Deliver([Type |-> "SelfClosingTag", Data |-> f.Data,
                    Attributes |-> f.Attributes])
    /\ UNCHANGED <<input, pos, pc, cur, iterPos>>

\* text() stops only at "<" or at the end, so no Text token follows another.
TokText ==
    /\ MoreTokens
    /\ LastType # "Text"
    /\ \E t \in Texts :
           Deliver([Type |-> "Text", Data |-> t, Attributes |-> <<>>])
    /\ UNCHANGED <<input, pos, pc, cur, iterPos>>

TokDoctype ==
    /\ MoreTokens
    /\ Deliver([Type |-> "Doctype", Data |-> "html", Attributes |-> <<>>])
    /\ UNCHANGED <<input, pos, pc, cur, iterPos>>

TokComment ==
    /\ MoreTokens
    /\ Deliver([Type |-> "Comment", Data |-> "c", Attributes |-> <<>>])
    /\ UNCHANGED <<input, pos, pc, cur, iterPos>>

Next ==
    \/ TokStartTag
    \/ TokEndTag
    \/ TokSelfClosingTag
    \/ TokText
    \/ TokDoctype
    \/ TokComment

Spec == Init /\ [][Next]_vars

----
\* SpecLex: ParseString(s).  NextToken runs as one step, except that the loop of
\* attributes() runs one iteration a step.

InitLex == InitParser /\ input \in Inputs(MaxFrags) /\ pc = "lex"

TheLexer == [input |-> input, pos |-> pos]

\* The lexer past the "<" that NextToken found.
InTag == advance(TheLexer)

LexEOF ==
    /\ pc = "lex"
    /\ pos >= Len(input)
    /\ pc' = "done"
    /\ UNCHANGED <<dom, stack, input, pos, cur, iterPos, toks, origin>>
    /\ UNCHANGED backVars

LexText ==
    /\ pc = "lex"
    /\ pos < Len(input)
    /\ peek(TheLexer) # "<"
    /\ LET r == text(TheLexer)
       IN  pos' = r.l.pos /\ Deliver(r.tok)
    /\ UNCHANGED <<input, pc, cur, iterPos>>

LexComment ==
    /\ pc = "lex"
    /\ pos < Len(input)
    /\ peek(TheLexer) = "<"
    /\ tagKind(InTag) = "comment"
    /\ LET r == comment([InTag EXCEPT !.pos = @ + 3])
       IN  pos' = r.l.pos /\ Deliver(r.tok)
    /\ UNCHANGED <<input, pc, cur, iterPos>>

LexDoctype ==
    /\ pc = "lex"
    /\ pos < Len(input)
    /\ peek(TheLexer) = "<"
    /\ tagKind(InTag) = "doctype"
    /\ LET r == doctype([InTag EXCEPT !.pos = @ + 8])
       IN  pos' = r.l.pos /\ Deliver(r.tok)
    /\ UNCHANGED <<input, pc, cur, iterPos>>

LexEndTag ==
    /\ pc = "lex"
    /\ pos < Len(input)
    /\ peek(TheLexer) = "<"
    /\ tagKind(InTag) = "endTag"
    /\ LET r == endTag(advance(InTag))
       IN  pos' = r.l.pos /\ Deliver(r.tok)
    /\ UNCHANGED <<input, pc, cur, iterPos>>

\* startTag() up to its call of attributes()
LexStartTag ==
    /\ pc = "lex"
    /\ pos < Len(input)
    /\ peek(TheLexer) = "<"
    /\ tagKind(InTag) = "startTag"
    /\ LET n == tagName(skipWhitespace(InTag))
       IN  /\ pos' = n.l.pos
           /\ cur' = [tagName |-> n.name, attrs |-> <<>>]
    /\ pc' = "attrs"
    /\ iterPos' = -1
    /\ UNCHANGED <<dom, stack, input, toks, origin>>
    /\ UNCHANGED backVars

\* An iteration of the loop of attributes() that does not leave it.
LexAttribute ==
    /\ pc = "attrs"
    /\ LET s == skipWhitespace(TheLexer)
       IN  /\ ~attributesDone(s)
           /\ LET r == attribute(s)
              IN  /\ pos' = r.l.pos
                  /\ cur' = IF r.attr.Key # ""
                            THEN [cur EXCEPT !.attrs = Append(@, r.attr)]
                            ELSE cur
    /\ iterPos' = pos
    /\ UNCHANGED <<dom, stack, input, pc, toks, origin>>
    /\ UNCHANGED backVars

\* The iteration that leaves the loop, the rest of startTag(), and the parser's
\* handling of the token.
LexStartTagEnd ==
    /\ pc = "attrs"
    /\ LET s == skipWhitespace(TheLexer)
       IN  /\ attributesDone(s)
           /\ LET r == startTagEnd(s, cur.tagName, cur.attrs)
              IN  pos' = r.l.pos /\ Deliver(r.tok)
    /\ pc' = "lex"
    /\ cur' = NoTag
    /\ iterPos' = -1
    /\ UNCHANGED input

NextLex ==
    \/ LexEOF
    \/ LexText
    \/ LexComment
    \/ LexDoctype
    \/ LexEndTag
    \/ LexStartTag
    \/ LexAttribute
    \/ LexStartTagEnd

SpecLex == InitLex /\ [][NextLex]_vars

----
\* Vocabulary of the properties.

IDs == 0..(Len(dom.Nodes) - 1)

Node(id) == dom.Nodes[id + 1]

Origin(id) == origin[id + 1]

\* The token that created node id (for a synthesised node, the token it was
\* synthesised for).
TokenOf(id) == toks[Origin(id).tok]

IsElement(id) == Node(id).Type = "Element"

IsText(id) == Node(id).Type = "Text"

\* Node id came from a token of the input: it was not synthesised.
FromInput(id) == ~Origin(id).synth

Elements(tag) == {id \in IDs : IsElement(id) /\ Node(id).Tag = tag}

\* How often the children of p list c.
Listed(p, c) ==
    Cardinality({j \in 1..Len(Node(p).Children) : Node(p).Children[j] = c})

\* p is a valid id of an element that lists c exactly once.
ParentOf(p, c) == HasNode(dom, p) /\ IsElement(p) /\ Listed(p, c) = 1

\* Node id lies below node a in the tree.
RECURSIVE Descends(_, _)
Descends(id, a) ==
    /\ HasNode(dom, Node(id).Parent)
    /\ Node(id).Parent < id
    /\ (Node(id).Parent = a \/ Descends(Node(id).Parent, a))

\* A list of node ids in document order.
InDocumentOrder(ids) ==
    \A i, j \in 1..Len(ids) : i < j => Origin(ids[i]).tok < Origin(ids[j]).tok

Opens(tok) == tok.Type \in {"StartTag", "SelfClosingTag"}

IsTag(tok) == tok.Type \in {"StartTag", "SelfClosingTag", "EndTag"}

\* The root is an <html> that no token of the input created.
SynthesisedHtmlRoot ==
    /\ HasNode(dom, dom.Root)
    /\ Node(dom.Root).Tag = "html"
    /\ Node(dom.Root).Parent = InvalidNodeID
    /\ ~FromInput(dom.Root)
    /\ Elements("html") = {dom.Root}

\* The elements of the input created while no other element of the input was open.
TopLevel == {id \in IDs : IsElement(id) /\ FromInput(id) /\ Origin(id).depth = 0}

----
\* C1: the loop of attributes() consumes at least one byte in every iteration (so
\* that NextToken returns and ParseString reaches EOF on every input): after an
\* iteration, pos is beyond where the iteration began.
C1_AttributesLoopConsumes == (pc = "attrs" /\ iterPos >= 0) => pos > iterPos

----
\* C2: arena integrity. After every parser step, every node whose Parent is not
\* InvalidNodeID has as Parent the id of an element node whose Children hold the
\* node's id exactly once.
C2_ArenaIntegrity ==
    \A id \in IDs :
        Node(id).Parent # InvalidNodeID => ParentOf(Node(id).Parent, id)

C2_Witness ==
    \E id \in IDs :
        /\ Node(id).Parent # InvalidNodeID
        /\ Len(Node(Node(id).Parent).Children) >= 2

----
\* C3: every node of the arena other than the root has a Parent that is not
\* InvalidNodeID and is an element that lists it in its Children.
C3_EveryNodeAttached ==
    \A id \in IDs :
        id # dom.Root =>
            Node(id).Parent # InvalidNodeID /\ ParentOf(Node(id).Parent, id)

----
\* C4: an input of body-content start, self-closing and end tags and of text that
\* begins with a start tag gives a synthesised <html> root with one child, a
\* synthesised <body>; no other <html> or <body> and no <head> exists; the
\* top-level elements of the input are children of the <body>, whose children
\* are in document order.
C4_Pre ==
    /\ toks # <<>>
    /\ toks[1].Type = "StartTag"
    /\ \A i \in 1..Len(toks) :
           \/ toks[i].Type = "Text"
           \/ IsTag(toks[i]) /\ isBodyContent(toks[i].Data)

C4_BodyOnly ==
    C4_Pre =>
        /\ SynthesisedHtmlRoot
        /\ Len(Node(dom.Root).Children) = 1
        /\ LET b == Node(dom.Root).Children[1]
           IN  /\ Elements("body") = {b}
               /\ ~FromInput(b)
               /\ \A id \in TopLevel : Node(id).Parent = b /\ Listed(b, id) = 1
               /\ InDocumentOrder(Node(b).Children)
        /\ Elements("head") = {}

C4_Witness ==
    /\ C4_Pre
    /\ Cardinality(TopLevel) >= 2
    /\ \E id \in IDs : IsText(id)

----
\* C5: when the first element of the input is a head-content start tag, a
\* body-content start tag comes later and the input has no html/head/body tag,
\* the synthesised <html> has two children, <head> then <body>; from the token
\* that opens the <body> on, neither the <head> nor anything below it is on the
\* stack, and every node created from that token on lies below the <body>.
C5_Tags == {i \in 1..Len(toks) : Opens(toks[i])}

C5_BodyTags == {i \in C5_Tags : isBodyContent(toks[i].Data)}

C5_Min(S) == CHOOSE i \in S : \A j \in S : i <= j

C5_Pre ==
    /\ C5_BodyTags # {}
    /\ toks[C5_Min(C5_Tags)].Type = "StartTag"
    /\ isHeadContent(toks[C5_Min(C5_Tags)].Data)
    /\ ~isBodyContent(toks[C5_Min(C5_Tags)].Data)
    /\ \A i \in 1..Len(toks) :
           IsTag(toks[i]) => toks[i].Data \notin {"html", "head", "body"}

C5_HeadThenBody ==
    C5_Pre =>
        /\ SynthesisedHtmlRoot
        /\ Len(Node(dom.Root).Children) = 2
        /\ LET h == Node(dom.Root).Children[1]
               b == Node(dom.Root).Children[2]
           IN  /\ Elements("head") = {h} /\ ~FromInput(h)
               /\ Elements("body") = {b} /\ ~FromInput(b)
               /\ \A i \in 1..Len(stack) : stack[i] # h /\ ~Descends(stack[i], h)
               /\ \A id \in IDs :
                      (FromInput(id) /\ Origin(id).tok >= C5_Min(C5_BodyTags)) =>
                          Descends(id, b) /\ ~Descends(id, h)

\* <title> is still open when the <body> is opened, and a node comes after it.
C5_Witness ==
    /\ C5_Pre
    /\ toks[1].Data = "title"
    /\ C5_Min(C5_BodyTags) = 2
    /\ \E id \in IDs : Origin(id).tok = 3

----
\* C6: an input whose tags are all head-content tags, one of them a start or
\* self-closing tag, gives a synthesised <html> root with one child, a
\* synthesised <head>; no <body> exists; every element of the input lies below
\* the <head> and has the attributes of its token (the last value of each key);
\* the top-level ones are children of the <head>, whose children are in
\* document order.
C6_Pre ==
    /\ \E i \in 1..Len(toks) : Opens(toks[i])
    /\ \A i \in 1..Len(toks) : IsTag(toks[i]) => isHeadContent(toks[i].Data)

\* The attributes a list of key/value pairs stands for.
AttrsOf(list) ==
    [k \in {list[i].Key : i \in 1..Len(list)} |->
        LET last == CHOOSE i \in 1..Len(list) :
                        /\ list[i].Key = k
                        /\ \A j \in 1..Len(list) : list[j].Key = k => j <= i
        IN  list[last].Value]

C6_HeadOnly ==
    C6_Pre =>
        /\ SynthesisedHtmlRoot
        /\ Len(Node(dom.Root).Children) = 1
        /\ LET h == Node(dom.Root).Children[1]
           IN  /\ Elements("head") = {h}
               /\ ~FromInput(h)
               /\ \A id \in IDs :
                      (IsElement(id) /\ FromInput(id)) =>
                          /\ Descends(id, h)
                          /\ Node(id).Tag = TokenOf(id).Data
                          /\ Node(id).Attr = AttrsOf(TokenOf(id).Attributes)
               /\ \A id \in TopLevel : Node(id).Parent = h /\ Listed(h, id) = 1
               /\ InDocumentOrder(Node(h).Children)
        /\ Elements("body") = {}

C6_Witness ==
    /\ C6_Pre
    /\ Cardinality(TopLevel) >= 2
    /\ \E id \in TopLevel : Node(id).Tag = "link" /\ DOMAIN Node(id).Attr = {"rel", "href"}

----
\* C7, the part about the stack: no element with a void tag and no element created
\* from a SelfClosingTag token is on the stack, and every such element is a leaf.
IsVoid(id) ==
    /\ IsElement(id)
    /\ isVoidElement(Node(id).Tag) \/ (FromInput(id) /\ TokenOf(id).Type = "SelfClosingTag")

\* Node m was created by the token after the one that created node v.
Follows(m, v) ==
    FromInput(m) /\ FromInput(v) /\ Origin(m).tok = Origin(v).tok + 1

\* The token that created node m had html, head or body synthesised for it.
Synthesised(m) == \E s \in IDs : ~FromInput(s) /\ Origin(s).tok = Origin(m).tok

C7_NeverOpen ==
    /\ \A i \in 1..Len(stack) : ~IsVoid(stack[i])
    /\ \A v \in IDs : IsVoid(v) => Node(v).Children = <<>>

\* C7 as claimed: void and self-closing elements are never on the stack and are
\* leaves, and the node created by the token after the token of such an element
\* (one that has a parent) is its sibling, not its child.
C7_FollowerIsSibling ==
    /\ C7_NeverOpen
    /\ \A v, m \in IDs :
           (IsVoid(v) /\ Follows(m, v) /\ Node(v).Parent # InvalidNodeID) =>
               Node(m).Parent # v /\ Node(m).Parent = Node(v).Parent

\* C7 as amended: void and self-closing elements are never on the stack and are
\* leaves, and the node created by the token after the token of such an element
\* is not its child; it has the same Parent as the element unless html, head or
\* body was synthesised for the later token.
C7_FollowerIsNoChild ==
    /\ C7_NeverOpen
    /\ \A v, m \in IDs :
           (IsVoid(v) /\ Follows(m, v)) =>
               /\ Node(m).Parent # v
               /\ ~Synthesised(m) => Node(m).Parent = Node(v).Parent

C7_Witness ==
    \E v, m \in IDs :
        /\ IsVoid(v) /\ Follows(m, v)
        /\ Node(v).Parent # InvalidNodeID
        /\ Node(m).Parent = Node(v).Parent
        /\ FromInput(Node(v).Parent)

----
\* C8: Root is InvalidNodeID exactly when no StartTag or SelfClosingTag token was
\* handled; otherwise it is the first element created and has no Parent.  A text
\* met while no element was open has no Parent and is in no Children list.  Once
\* set, Root is never assigned again.
C8_SawTag == \E i \in 1..Len(toks) : Opens(toks[i])

C8_RootState ==
    /\ dom.Root = InvalidNodeID <=> ~C8_SawTag
    /\ dom.Root # InvalidNodeID =>
           /\ HasNode(dom, dom.Root)
           /\ IsElement(dom.Root)
           /\ \A id \in IDs : IsElement(id) => dom.Root <= id
           /\ Node(dom.Root).Parent = InvalidNodeID
    /\ \A id \in IDs :
           (IsText(id) /\ Origin(id).open = 0) =>
               /\ Node(id).Parent = InvalidNodeID
               /\ \A q \in IDs : Listed(q, id) = 0

C8_RootKept == dom.Root # InvalidNodeID => dom'.Root = dom.Root

C8_Root == []C8_RootState /\ [][C8_RootKept]_vars

\* An orphan text, then a root, then another element.
C8_Witness ==
    /\ dom.Root = 1
    /\ IsText(0) /\ Origin(0).open = 0
    /\ \E id \in IDs : id > dom.Root /\ IsElement(id) /\ FromInput(id)

----
\* C9: handleEndTag for tag t removes from the stack the topmost element with tag
\* t and everything above it, keeping what is below; with no such element the
\* stack is unchanged.  The DOM is unchanged in both cases.
C9_Matching(t) == {i \in 1..Len(stack) : Node(stack[i]).Tag = t}

C9_Max(S) == CHOOSE i \in S : \A j \in S : j <= i

C9_Expected(t) ==
    IF C9_Matching(t) = {} THEN stack
    ELSE SubSeq(stack, 1, C9_Max(C9_Matching(t)) - 1)

C9_IsEndTagStep == Len(toks') = Len(toks) + 1 /\ toks'[Len(toks')].Type = "EndTag"

C9_EndTagFrame ==
    [][C9_IsEndTagStep =>
          /\ dom' = dom
          /\ stack' = C9_Expected(toks'[Len(toks')].Data)]_vars

\* </div> with two <div> open: the inner one is closed, the outer one stays.
C9_Witness ==
    /\ Len(toks) = 3
    /\ toks[1].Type = "StartTag" /\ toks[1].Data = "div"
    /\ toks[2].Type = "StartTag" /\ toks[2].Data = "div"
    /\ toks[3].Type = "EndTag" /\ toks[3].Data = "div"
    /\ Len(stack) = 3
    /\ Node(stack[3]).Tag = "div"

----
\* C10: every element tag name and every attribute key in the DOM is a non-empty
\* string over a-z, 0-9, '_', ':' and '-'.
NameByte == Lower \cup Digit \cup {"_", ":", "-"}

WellFormedName(s) == s # "" /\ \A i \in 1..Len(s) : SubSeq(s, i, i) \in NameByte

C10_NamesWellFormed ==
    \A id \in IDs :
        IsElement(id) =>
            /\ WellFormedName(Node(id).Tag)
            /\ \A k \in DOMAIN Node(id).Attr : WellFormedName(k)

----
\* package css, the lexer (src/unnamed/part_006, from line 477)

\* F(v) with v evaluated once, as a Go call evaluates its argument and a Go
\* statement its right-hand side.
Bind(v, F(_)) == CHOOSE r \in {F(x) : x \in {v}} : TRUE

\* Token{Type, Value, Unit}
CssToken(type, value, unit) == [Type |-> type, Value |-> value, Unit |-> unit]

\* l.input[i]
byteAt(l, i) == SubSeq(l.input, i + 1, i + 1)

\* Lexer.peek
cssPeek(l) == IF l.pos >= Len(l.input) THEN NUL ELSE byteAt(l, l.pos)

\* l.pos += n
skip(l, n) == [l EXCEPT !.pos = @ + n]

\* Lexer.advance
cssAdvance(l) == Bind(l, LAMBDA m : IF m.pos >= Len(m.input) THEN m ELSE skip(m, 1))

\* skipWhitespace: the inner loop, which looks for the end of a comment
RECURSIVE commentEnd(_)
commentEnd(l) ==
    Bind(l, LAMBDA m :
        IF m.pos + 1 >= Len(m.input) THEN m
        ELSE IF byteAt(m, m.pos) = "*" /\ byteAt(m, m.pos + 1) = "/" THEN skip(m, 2)
        ELSE commentEnd(skip(m, 1)))

\* Lexer.skipWhitespace
RECURSIVE cssSkipWhitespace(_)
cssSkipWhitespace(l) ==
    Bind(l, LAMBDA m :
        IF m.pos >= Len(m.input) THEN m
        ELSE IF isSpace(cssPeek(m)) THEN cssSkipWhitespace(skip(m, 1))
        ELSE IF cssPeek(m) = "/" /\ m.pos + 1 < Len(m.input)
                /\ byteAt(m, m.pos + 1) = "*"
             THEN cssSkipWhitespace(commentEnd(skip(m, 2)))
        ELSE m)

isIdentStart(ch) == IsLetter(ch) \/ ch = "_" \/ ch = "-"

isIdentChar(ch) == IsLetter(ch) \/ IsDigit(ch) \/ ch = "_" \/ ch = "-"

\* for l.pos < len(l.input) && isIdentChar(l.peek()) { l.pos++ }
RECURSIVE identEnd(_)
identEnd(l) ==
    Bind(l, LAMBDA m :
        IF m.pos < Len(m.input) /\ isIdentChar(byteAt(m, m.pos))
        THEN identEnd(skip(m, 1))
        ELSE m)

\* for l.pos < len(l.input) && unicode.IsDigit(rune(l.peek())) { l.pos++ }
RECURSIVE digitsEnd(_)
digitsEnd(l) ==
    Bind(l, LAMBDA m :
        IF m.pos < Len(m.input) /\ IsDigit(byteAt(m, m.pos))
        THEN digitsEnd(skip(m, 1))
        ELSE m)

\* for l.pos < len(l.input) && l.peek() != quote { l.pos++ }
RECURSIVE strEnd(_, _)
strEnd(l, quote) ==
    Bind(l, LAMBDA m :
        IF m.pos < Len(m.input) /\ byteAt(m, m.pos) # quote
        THEN strEnd(skip(m, 1), quote)
        ELSE m)

\* Lexer.hash, from the "#"
hash(l) ==
    Bind(identEnd(cssAdvance(l)), LAMBDA e :
        [l |-> e, tok |-> CssToken("Hash", Slice(e, l.pos + 1, e.pos), "")])

\* Lexer.str, from the quote
str(l) ==
    Bind(strEnd(cssAdvance(l), cssPeek(l)), LAMBDA e :
        [l |-> IF cssPeek(e) = cssPeek(l) THEN cssAdvance(e) ELSE e,
         tok |-> CssToken("String", Slice(e, l.pos + 1, e.pos), "")])

\* Lexer.number: the end of the sign, the integer part and the decimal part
numberEnd(l) ==
    Bind(digitsEnd(IF cssPeek(l) = "-" THEN cssAdvance(l) ELSE l), LAMBDA i :
        IF cssPeek(i) = "." /\ i.pos + 1 < Len(i.input) /\ IsDigit(byteAt(i, i.pos + 1))
        THEN digitsEnd(cssAdvance(i))
        ELSE i)

\* Lexer.number: the unit of a dimension, v the lexer past the value
dimension(l, v) ==
    Bind(identEnd(v), LAMBDA e :
        [l |-> e,
         tok |-> CssToken("Dimension", Slice(l, l.pos, v.pos), Slice(l, v.pos, e.pos))])

\* Lexer.number
number(l) ==
    Bind(numberEnd(l), LAMBDA v :
        IF cssPeek(v) = "%"
        THEN [l |-> cssAdvance(v),
              tok |-> CssToken("Percentage", Slice(l, l.pos, v.pos), "")]
        ELSE IF isIdentStart(cssPeek(v)) THEN dimension(l, v)
        ELSE [l |-> v, tok |-> CssToken("Number", Slice(l, l.pos, v.pos), "")])

\* Lexer.ident
ident(l) ==
    Bind(identEnd(l), LAMBDA e :
        IF cssPeek(e) = "("
        THEN [l |-> cssAdvance(e),
              tok |-> CssToken("Function", Slice(l, l.pos, e.pos), "")]
        ELSE [l |-> e, tok |-> CssToken("Ident", Slice(l, l.pos, e.pos), "")])

\* NextToken: the bytes that are a token of their own
Punctuation == {"{", "}", ":", ";", ",", ".", ")"}

PunctuationType(ch) ==
    CASE ch = "{" -> "LBrace"
      [] ch = "}" -> "RBrace"
      [] ch = ":" -> "Colon"
      [] ch = ";" -> "Semicolon"
      [] ch = "," -> "Comma"
      [] ch = "." -> "Dot"
      [] ch = ")" -> "RParen"

RECURSIVE NextToken(_)

\* NextToken: the switch on the byte ch, l the lexer after skipWhitespace
tokenAt(l, ch) ==
    IF l.pos >= Len(l.input) THEN [l |-> l, tok |-> CssToken("EOF", "", "")]
    ELSE IF ch \in Punctuation
    THEN [l |-> cssAdvance(l), tok |-> CssToken(PunctuationType(ch), ch, "")]
    ELSE IF ch = "#" THEN hash(l)
    ELSE IF ch \in {"\"", "'"} THEN str(l)
    ELSE IF ch = "-" \/ IsDigit(ch) THEN number(l)
    ELSE IF isIdentStart(ch) THEN ident(l)
    ELSE NextToken(cssAdvance(l))

\* Lexer.NextToken
NextToken(l) ==
    Bind(cssSkipWhitespace(l), LAMBDA m : Bind(cssPeek(m), LAMBDA ch : tokenAt(m, ch)))

----
\* package css, the parser (src/unnamed/part_006, lines 1-182)

\* Parse: &Parser{lexer: NewLexer(input)}; n counts the calls of advance
NewCssParser(s) == [l |-> NewLexer(s), cur |-> CssToken("EOF", "", ""), n |-> 0]

\* Parser.advance
parserAdvance(p) ==
    Bind(p, LAMBDA q :
        Bind(NextToken(q.l), LAMBDA r : [l |-> r.l, cur |-> r.tok, n |-> q.n + 1]))

NoSelector == [Type |-> "Tag", Value |-> ""]

\* selector: case TokenDot, q the parser past the dot
classSelector(q) ==
    IF q.cur.Type = "Ident"
    THEN [p |-> parserAdvance(q), sel |-> [Type |-> "Class", Value |-> q.cur.Value]]
    ELSE [p |-> q, sel |-> NoSelector]

\* Parser.selector
selector(p) ==
    Bind(p, LAMBDA q :
        CASE q.cur.Type = "Ident" ->
               [p |-> parserAdvance(q), sel |-> [Type |-> "Tag", Value |-> q.cur.Value]]
          [] q.cur.Type = "Dot" -> Bind(parserAdvance(q), classSelector)
          [] q.cur.Type = "Hash" ->
               [p |-> parserAdvance(q), sel |-> [Type |-> "ID", Value |-> q.cur.Value]]
          [] OTHER -> [p |-> q, sel |-> NoSelector])

\* selectors: if sel.Value != "" { append }
addSelector(sels, sel) == IF sel.Value # "" THEN Append(sels, sel) ELSE sels

\* Parser.selectors: its loop, sels the selectors so far
RECURSIVE selectorsFrom(_, _)
selectorsFrom(p, sels) ==
    Bind(selector(p), LAMBDA r :
        IF r.p.cur.Type = "Comma"
        THEN selectorsFrom(parserAdvance(r.p), addSelector(sels, r.sel))
        ELSE [p |-> r.p, selectors |-> addSelector(sels, r.sel)])

\* Parser.selectors
selectors(p) == selectorsFrom(p, <<>>)

\* rule: skip until we find a brace or EOF
RECURSIVE skipToBrace(_)
skipToBrace(p) ==
    Bind(p, LAMBDA q :
        IF q.cur.Type # "LBrace" /\ q.cur.Type # "EOF"
        THEN skipToBrace(parserAdvance(q))
        ELSE q)

\* rule: if p.cur.Type == t { p.advance() }
consume(p, type) ==
    Bind(p, LAMBDA q : IF q.cur.Type = type THEN parserAdvance(q) ELSE q)

\* Parser.rule up to its call of declarations()
ruleHead(p) ==
    Bind(selectors(p), LAMBDA r :
        [p |-> consume(skipToBrace(r.p), "LBrace"), selectors |-> r.selectors])

\* declaration: valueStr after the token tok
writeValue(valueStr, tok) ==
    (IF Len(valueStr) > 0 THEN valueStr \o " " ELSE valueStr) \o tok.Value \o tok.Unit

\* declaration: the loop that collects the value tokens
RECURSIVE valueFrom(_, _, _)
valueFrom(p, values, valueStr) ==
    Bind(p, LAMBDA q :
        IF q.cur.Type \notin {"Semicolon", "RBrace", "EOF"}
        THEN Bind(writeValue(valueStr, q.cur), LAMBDA w :
                 valueFrom(parserAdvance(q), Append(values, q.cur), w))
        ELSE [p |-> consume(q, "Semicolon"), Values |-> values, Value |-> valueStr])

NoDeclaration == [Property |-> "", Value |-> "", Values |-> <<>>]

\* declaration: the value of the property, q the parser past the property
declarationValue(property, q) ==
    IF q.cur.Type # "Colon" THEN [p |-> q, decl |-> NoDeclaration]
    ELSE Bind(valueFrom(parserAdvance(q), <<>>, ""), LAMBDA v :
             [p |-> v.p,
              decl |-> [Property |-> property, Value |-> v.Value, Values |-> v.Values]])

\* Parser.declaration, were a token that is no identifier left where it is
declarationNoSkip(p) ==
    Bind(p, LAMBDA q :
        IF q.cur.Type # "Ident" THEN [p |-> q, decl |-> NoDeclaration]
        ELSE Bind(parserAdvance(q), LAMBDA a : declarationValue(q.cur.Value, a)))

\* Parser.declaration
declaration(p) ==
    Bind(p, LAMBDA q :
        IF q.cur.Type # "Ident" THEN [p |-> parserAdvance(q), decl |-> NoDeclaration]
        ELSE Bind(parserAdvance(q), LAMBDA a : declarationValue(q.cur.Value, a)))

\* declarations: if decl.Property != "" { append }
addDeclaration(decls, decl) == IF decl.Property # "" THEN Append(decls, decl) ELSE decls

\* Parser.declarations: its loop, decls the declarations so far
RECURSIVE declarationsFrom(_, _)
declarationsFrom(p, decls) ==
    Bind(p, LAMBDA q :
        IF q.cur.Type # "RBrace" /\ q.cur.Type # "EOF"
        THEN Bind(declaration(q), LAMBDA r :
                 declarationsFrom(r.p, addDeclaration(decls, r.decl)))
        ELSE [p |-> q, declarations |-> decls])

\* Parser.declarations
declarations(p) == declarationsFrom(p, <<>>)

\* Parser.rule from its call of declarations() on
ruleBody(selectorList, p) ==
    Bind(declarations(p), LAMBDA r :
        [p |-> consume(r.p, "RBrace"),
         rule |-> [Selectors |-> selectorList, Declarations |-> r.declarations]])

\* Parser.rule
parseRule(p) == Bind(ruleHead(p), LAMBDA h : ruleBody(h.selectors, h.p))

\* parse: if len(rule.Selectors) > 0 { append }
addRule(ruleList, r) == IF Len(r.Selectors) > 0 THEN Append(ruleList, r) ELSE ruleList

\* Parser.parse: its loop, ruleList the rules so far
RECURSIVE parseFrom(_, _)
parseFrom(p, ruleList) ==
    Bind(p, LAMBDA q :
        IF q.cur.Type # "EOF"
        THEN Bind(parseRule(q), LAMBDA r : parseFrom(r.p, addRule(ruleList, r.rule)))
        ELSE [Rules |-> ruleList])

\* css.Parse
Parse(s) == parseFrom(parserAdvance(NewCssParser(s)), <<>>)

\* Dump: the selectors of a rule, from the i-th on
RECURSIVE dumpSelectors(_, _)
dumpSelectors(sels, i) ==
    IF i > Len(sels) THEN ""
    ELSE (IF i > 1 THEN ", " ELSE "")
         \o (CASE sels[i].Type = "Tag" -> sels[i].Value
               [] sels[i].Type = "Class" -> "." \o sels[i].Value
               [] sels[i].Type = "ID" -> "#" \o sels[i].Value)
         \o dumpSelectors(sels, i + 1)

\* Dump: the declarations of a rule, from the i-th on
RECURSIVE dumpDeclarations(_, _)
dumpDeclarations(decls, i) ==
    IF i > Len(decls) THEN ""
    ELSE "  " \o decls[i].Property \o ": " \o decls[i].Value \o ";\n"
         \o dumpDeclarations(decls, i + 1)

\* Dump: the rules, from the i-th on
RECURSIVE dumpRules(_, _)
dumpRules(ruleList, i) ==
    IF i > Len(ruleList) THEN ""
    ELSE dumpSelectors(ruleList[i].Selectors, 1) \o " {\n"
         \o dumpDeclarations(ruleList[i].Declarations, 1) \o "}\n"
         \o dumpRules(ruleList, i + 1)

\* Stylesheet.Dump
Dump(s) == dumpRules(s.Rules, 1)

----
\* SpecCss: css.Parse(input).  The loop of parse() runs one rule an iteration,
\* and within it the loop of declarations() one declaration a step.

\* The selector lists an input begins with.
SelectorParts == {"p", "#i", "p, .c", ""}

\* Declarations as they are written, each with the Property and the Value the
\* parser is to make of it.
WellFormedParts ==
    { [text |-> "color:red;",            Property |-> "color",   Value |-> "red"],
      [text |-> " width : -10px ;",      Property |-> "width",   Value |-> "-10px"],
      [text |-> "color:#fff;",           Property |-> "color",   Value |-> "fff"],
      [text |-> "width:50%;",            Property |-> "width",   Value |-> "50"],
      [text |-> "color:rgb(1,2);",       Property |-> "color",   Value |-> "rgb 1 , 2 )"],
      [text |-> "content:\";\";",        Property |-> "content", Value |-> ";"],
      [text |-> "content:'}:';",         Property |-> "content", Value |-> "}:"] }

\* Malformed declarations: no colon, a property that is no identifier, bytes the
\* lexer does not know.
MalformedParts ==
    { [text |-> "color red;", Property |-> "", Value |-> ""],
      [text |-> "10px:red;",  Property |-> "", Value |-> ""],
      [text |-> "@$;",        Property |-> "", Value |-> ""] }

DeclarationParts == WellFormedParts \cup MalformedParts

\* What follows the declarations.
TailParts == {"}", "", "} .c{}"}

RECURSIVE PartSeqs(_)
PartSeqs(n) ==
    IF n = 0 THEN {<<>>}
    ELSE PartSeqs(n - 1)
         \cup {Append(q, d) : q \in {x \in PartSeqs(n - 1) : Len(x) = n - 1},
                              d \in DeclarationParts}

RECURSIVE partsText(_, _)
partsText(parts, i) ==
    IF i > Len(parts) THEN "" ELSE parts[i].text \o partsText(parts, i + 1)

\* The inputs that are one rule, perhaps with a second one after it.
RuleInputs ==
    { [structured |-> TRUE, sel |-> sel, decls |-> ds, tail |-> t,
       text |-> sel \o "{" \o partsText(ds, 1) \o t] :
         sel \in SelectorParts, ds \in PartSeqs(MaxCssDecls), t \in TailParts }

\* The bytes and the byte pairs the lexer tells apart.
CssFrags == {"p", "{", "}", ":", ";", "\"", ".", "#", "1", "/*"}

RECURSIVE CssTexts(_)
CssTexts(n) ==
    IF n = 0 THEN {""}
    ELSE CssTexts(n - 1) \cup {t \o f : t \in CssTexts(n - 1), f \in CssFrags}

\* The inputs that are any bytes.
FreeInputs ==
    { [structured |-> FALSE, sel |-> "", decls |-> <<>>, tail |-> "", text |-> t] :
         t \in CssTexts(MaxCssFrags) }

NoRule == [Selectors |-> <<>>, Declarations |-> <<>>]

\* Before the call of Parse.
InitCss == FrontIdle /\ BackIdle /\ pc = "cssStart"

\* Parse(input) up to its call of parse()
CssStart ==
    /\ pc = "cssStart"
    /\ cssParts' \in RuleInputs \cup FreeInputs
    /\ cssP' = parserAdvance(NewCssParser(cssParts'.text))
    /\ cssRules' = <<>>
    /\ cssRule' = NoRule
    /\ iterN' = 0
    /\ pc' = "cssRule"
    /\ UNCHANGED <<frontVars, auxVars, pageVars, rasterVars>>

\* parse: an iteration of its loop begins; rule() up to its call of declarations()
CssRuleHead ==
    /\ pc = "cssRule"
    /\ cssP.cur.Type # "EOF"
    /\ \E h \in {ruleHead(cssP)} :
           /\ cssP' = h.p
           /\ cssRule' = [Selectors |-> h.selectors, Declarations |-> <<>>]
    /\ iterN' = cssP.n
    /\ pc' = "cssDecls"
    /\ UNCHANGED <<cssRules, cssParts, frontVars, auxVars, pageVars, rasterVars>>

\* declarations: an iteration of its loop
CssDeclaration ==
    /\ pc = "cssDecls"
    /\ cssP.cur.Type # "RBrace" /\ cssP.cur.Type # "EOF"
    /\ \E r \in {declaration(cssP)} :
           /\ cssP' = r.p
           /\ cssRule' = [cssRule EXCEPT !.Declarations = addDeclaration(@, r.decl)]
    /\ UNCHANGED <<pc, cssRules, iterN, cssParts, frontVars, auxVars, pageVars, rasterVars>>

\* declarations returns; the rest of rule(); the iteration of parse's loop ends
CssRuleEnd ==
    /\ pc = "cssDecls"
    /\ cssP.cur.Type \in {"RBrace", "EOF"}
    /\ cssP' = consume(cssP, "RBrace")
    /\ cssRules' = addRule(cssRules, cssRule)
    /\ cssRule' = NoRule
    /\ pc' = "cssRule"
    /\ UNCHANGED <<iterN, cssParts, frontVars, auxVars, pageVars, rasterVars>>

\* parse: its loop ends, the stylesheet is returned
CssEOF ==
    /\ pc = "cssRule"
    /\ cssP.cur.Type = "EOF"
    /\ pc' = "cssDone"
    /\ UNCHANGED <<cssVars, frontVars, auxVars, pageVars, rasterVars>>

NextCss ==
    \/ CssStart
    \/ CssRuleHead
    \/ CssDeclaration
    \/ CssRuleEnd
    \/ CssEOF

\* Parse is sequential code: it takes its next step whenever it has one.
SpecCss == InitCss /\ [][NextCss]_vars /\ WF_vars(NextCss)

\* &Stylesheet{Rules: rules}
Returned == [Rules |-> cssRules]

\* The loop of the steps and the recursion of Parse give the same stylesheet.
StepsAreParse == pc = "cssDone" => Returned = Parse(cssParts.text)

----
\* Claims about css.Parse (SpecCss)

\* The (Property, Value) pairs of a list of declarations or of parts.
PropertyValues(decls) ==
    [i \in 1..Len(decls) |-> <<decls[i].Property, decls[i].Value>>]

\* Two rule lists agree in the selectors and in each declaration's Property and
\* Value.
SameRules(a, b) ==
    /\ Len(a) = Len(b)
    /\ \A i \in 1..Len(a) :
           /\ a[i].Selectors = b[i].Selectors
           /\ PropertyValues(a[i].Declarations) = PropertyValues(b[i].Declarations)

\* C19: the stylesheet that css.Parse returns is the one that css.Parse makes of
\* its Dump: as many rules, each with the same selectors and with declarations
\* equal in Property and Value.
C19_RoundTrip ==
    pc = "cssDone" => SameRules(Parse(Dump(Returned)).Rules, Returned.Rules)

\* C20: every iteration of the declaration loop and of the rule loop consumes a
\* token.
C20_Consumes ==
    /\ (pc = "cssDecls" /\ pc' = "cssDecls") => cssP'.n > cssP.n
    /\ (pc = "cssDecls" /\ pc' = "cssRule") => cssP'.n > iterN

\* C20: every rule collected has a selector.
C20_Selectors == \A i \in 1..Len(cssRules) : Len(cssRules[i].Selectors) > 0

\* The well-formed ones of the declarations an input was put together from.
C20_WellFormed == SelectSeq(cssParts.decls, LAMBDA d : d.Property # "")

\* C20: the rule of an input that is a rule holds the well-formed declarations
\* of the input, all of them and in their order, whatever malformed ones stand
\* between them.
C20_Kept ==
    (pc = "cssDone" /\ cssParts.structured /\ cssParts.sel # "") =>
        /\ Len(cssRules) >= 1
        /\ PropertyValues(cssRules[1].Declarations) = PropertyValues(C20_WellFormed)

\* C20: css.Parse terminates on every input and returns a stylesheet; each
\* iteration of its loops consumes a token, each returned rule has a selector,
\* and a malformed declaration drops no well-formed one that follows it.
C20_ParseTotal ==
    /\ <>(pc = "cssDone")
    /\ [][C20_Consumes]_vars
    /\ [](C20_Selectors /\ C20_Kept)

\* C20: a rule returned with the well-formed declaration that followed a
\* malformed one.
C20_Witness ==
    /\ pc = "cssDone"
    /\ cssParts.structured /\ cssParts.sel # ""
    /\ Len(cssParts.decls) = 2
    /\ cssParts.decls[1].Property = "" /\ cssParts.decls[2].Property # ""
    /\ Len(cssRules[1].Declarations) = 1
    /\ cssP.n > Len(cssRules[1].Declarations) + 2

----
\* package css, the computed style (src/unnamed/part_007) and the declarations
\* applied to it (src/unnamed/part_006, lines 185-447)
\*
\* A float32 length is a whole number of pixels: the stylesheets of the model
\* hold no literal with a decimal part, and their font sizes are even, so that
\* every length the engine computes from them is whole.  A pointer is a record
\* [set, v], nil the one with set = FALSE.

Color(r, g, b, a) == [R |-> r, G |-> g, B |-> b, A |-> a]

ColorBlack == Color(0, 0, 0, 255)

ColorWhite == Color(255, 255, 255, 255)

ColorTransparent == Color(0, 0, 0, 0)

Edges(top, right, bottom, left) ==
    [Top |-> top, Right |-> right, Bottom |-> bottom, Left |-> left]

\* Edges{}
NoEdges == Edges(0, 0, 0, 0)

\* a nil *float32 and a *float32 to v
NilLength == [set |-> FALSE, v |-> 0]

Length(v) == [set |-> TRUE, v |-> v]

\* a nil *Color and a *Color to c
NilColor == [set |-> FALSE, v |-> ColorTransparent]

ColorPtr(c) == [set |-> TRUE, v |-> c]

DefaultStyle ==
    [Display |-> "block", Width |-> NilLength, Height |-> NilLength,
     Margin |-> NoEdges, Padding |-> NoEdges, Border |-> NoEdges,
     Background |-> ColorTransparent, BorderColor |-> ColorBlack,
     FontSize |-> 16, Color |-> ColorBlack, FlexGrow |-> 0,
     JustifyContent |-> "flex-start", AlignItems |-> "stretch"]

HexDigits == "0123456789abcdef"

\* the digits of base b
IsDigitOf(ch, b) ==
    \E i \in 1..b : SubSeq(HexDigits, i, i) = ToLowerByte(ch)

DigitValue(ch) ==
    (CHOOSE i \in 1..16 : SubSeq(HexDigits, i, i) = ToLowerByte(ch)) - 1

AllDigitsOf(s, b) == \A i \in 1..Len(s) : IsDigitOf(SubSeq(s, i, i), b)

\* the number the digits s stand for in base b, after the digits that made acc
RECURSIVE digitsValue(_, _, _)
digitsValue(s, b, acc) ==
    IF s = "" THEN acc
    ELSE digitsValue(SubSeq(s, 2, Len(s)), b, acc * b + DigitValue(SubSeq(s, 1, 1)))

\* strconv.ParseUint(s, b, 8): a syntax error leaves 0, a range error 255
ParseUint8(s, b) ==
    IF s = "" \/ ~AllDigitsOf(s, b) THEN [ok |-> FALSE, v |-> 0]
    ELSE IF digitsValue(s, b, 0) > 255 THEN [ok |-> FALSE, v |-> 255]
    ELSE [ok |-> TRUE, v |-> digitsValue(s, b, 0)]

\* strings.IndexByte(s, ch), 0-based, -1 if there is none
IndexByte(s, ch) ==
    IF \E i \in 1..Len(s) : SubSeq(s, i, i) = ch
    THEN (CHOOSE i \in 1..Len(s) :
              /\ SubSeq(s, i, i) = ch
              /\ \A j \in 1..(i - 1) : SubSeq(s, j, j) # ch) - 1
    ELSE -1

\* A literal whose decimal part is not zero has no whole value: no state of the
\* model evaluates one.
NotWhole == CHOOSE v \in {} : TRUE

\* strconv.ParseFloat(s, 32) on the text of a number token: an optional sign,
\* digits, and an optional point with digits.  A literal without any digit is
\* an error.
ParseFloat(s) ==
    LET neg == Len(s) > 0 /\ SubSeq(s, 1, 1) = "-"
        body == IF neg THEN SubSeq(s, 2, Len(s)) ELSE s
        dot == IndexByte(body, ".")
        whole == IF dot < 0 THEN body ELSE SubSeq(body, 1, dot)
        frac == IF dot < 0 THEN "" ELSE SubSeq(body, dot + 2, Len(body))
    IN  IF whole \o frac = "" \/ ~AllDigitsOf(whole \o frac, 10)
        THEN [ok |-> FALSE, v |-> 0]
        ELSE IF digitsValue(frac, 10, 0) # 0 THEN NotWhole
        ELSE [ok |-> TRUE,
              v |-> IF neg THEN 0 - digitsValue(whole, 10, 0)
                    ELSE digitsValue(whole, 10, 0)]

\* parseLength
parseLength(values) ==
    IF Len(values) = 0 THEN NilLength
    ELSE IF values[1].Type \in {"Number", "Dimension", "Percentage"}
    THEN (IF ParseFloat(values[1].Value).ok
          THEN Length(ParseFloat(values[1].Value).v)
          ELSE NilLength)
    ELSE NilLength

\* parseEdges: the lengths among the tokens from the i-th on
RECURSIVE edgeLengths(_, _)
edgeLengths(values, i) ==
    IF i > Len(values) THEN <<>>
    ELSE IF values[i].Type \in {"Number", "Dimension"} /\ ParseFloat(values[i].Value).ok
    THEN <<ParseFloat(values[i].Value).v>> \o edgeLengths(values, i + 1)
    ELSE edgeLengths(values, i + 1)

\* parseEdges: the switch on len(lengths)
edgesOf(lengths) ==
    CASE Len(lengths) = 1 -> Edges(lengths[1], lengths[1], lengths[1], lengths[1])
      [] Len(lengths) = 2 -> Edges(lengths[1], lengths[2], lengths[1], lengths[2])
      [] Len(lengths) = 3 -> Edges(lengths[1], lengths[2], lengths[3], lengths[2])
      [] Len(lengths) = 4 -> Edges(lengths[1], lengths[2], lengths[3], lengths[4])
      [] OTHER -> NoEdges

\* parseEdges, were two lengths taken as (top, bottom) and (right, left)
parseEdgesPairs(values) ==
    IF Len(edgeLengths(values, 1)) = 2
    THEN Edges(edgeLengths(values, 1)[1], edgeLengths(values, 1)[1],
               edgeLengths(values, 1)[2], edgeLengths(values, 1)[2])
    ELSE edgesOf(edgeLengths(values, 1))

parseEdges(values) == edgesOf(edgeLengths(values, 1))

\* parseHexByte
parseHexByte(s) == ParseUint8(s, 16).v

\* strings.TrimPrefix(s, "#")
TrimHash(s) ==
    IF Len(s) > 0 /\ SubSeq(s, 1, 1) = "#" THEN SubSeq(s, 2, Len(s)) ELSE s

\* parseHexColor: after the TrimPrefix
hexColor(h) ==
    CASE Len(h) = 3 ->
           ColorPtr(Color(parseHexByte(SubSeq(h, 1, 1) \o SubSeq(h, 1, 1)),
                          parseHexByte(SubSeq(h, 2, 2) \o SubSeq(h, 2, 2)),
                          parseHexByte(SubSeq(h, 3, 3) \o SubSeq(h, 3, 3)), 255))
      [] Len(h) = 6 ->
           ColorPtr(Color(parseHexByte(SubSeq(h, 1, 2)), parseHexByte(SubSeq(h, 3, 4)),
                          parseHexByte(SubSeq(h, 5, 6)), 255))
      [] Len(h) = 8 ->
           ColorPtr(Color(parseHexByte(SubSeq(h, 1, 2)), parseHexByte(SubSeq(h, 3, 4)),
                          parseHexByte(SubSeq(h, 5, 6)), parseHexByte(SubSeq(h, 7, 8))))
      [] OTHER -> NilColor

parseHexColor(hex) == hexColor(TrimHash(hex))

\* parseRGBFunction: the uint8 numbers among the tokens from the i-th on
RECURSIVE rgbNums(_, _)
rgbNums(values, i) ==
    IF i > Len(values) THEN <<>>
    ELSE IF values[i].Type = "Number" /\ ParseUint8(values[i].Value, 10).ok
    THEN <<ParseUint8(values[i].Value, 10).v>> \o rgbNums(values, i + 1)
    ELSE rgbNums(values, i + 1)

\* parseRGBFunction: the colour of the numbers
rgbColor(nums) ==
    IF Len(nums) >= 3
    THEN ColorPtr(Color(nums[1], nums[2], nums[3], IF Len(nums) >= 4 THEN nums[4] ELSE 255))
    ELSE NilColor

parseRGBFunction(values) == rgbColor(rgbNums(values, 1))

\* parseColor: the named colours
NamedColors ==
    {"black", "white", "red", "green", "blue", "yellow", "gray", "grey", "transparent"}

NamedColor(name) ==
    CASE name = "black" -> Color(0, 0, 0, 255)
      [] name = "white" -> Color(255, 255, 255, 255)
      [] name = "red" -> Color(255, 0, 0, 255)
      [] name = "green" -> Color(0, 128, 0, 255)
      [] name = "blue" -> Color(0, 0, 255, 255)
      [] name = "yellow" -> Color(255, 255, 0, 255)
      [] name \in {"gray", "grey"} -> Color(128, 128, 128, 255)
      [] name = "transparent" -> Color(0, 0, 0, 0)

parseColor(decl) ==
    IF decl.Value \in NamedColors THEN ColorPtr(NamedColor(decl.Value))
    ELSE IF Len(decl.Values) > 0 /\ decl.Values[1].Type = "Hash"
    THEN parseHexColor(decl.Values[1].Value)
    ELSE IF Len(decl.Values) > 0 /\ decl.Values[1].Type = "Function"
            /\ decl.Values[1].Value \in {"rgb", "rgba"}
    THEN parseRGBFunction(SubSeq(decl.Values, 2, Len(decl.Values)))
    ELSE NilColor

\* ApplyDeclaration: the properties that take a length, l the parsed length
applyLength(style, property, l) ==
    IF ~l.set THEN style
    ELSE CASE property = "width" -> [style EXCEPT !.Width = l]
           [] property = "height" -> [style EXCEPT !.Height = l]
           [] property = "margin-top" -> [style EXCEPT !.Margin.Top = l.v]
           [] property = "margin-right" -> [style EXCEPT !.Margin.Right = l.v]
           [] property = "margin-bottom" -> [style EXCEPT !.Margin.Bottom = l.v]
           [] property = "margin-left" -> [style EXCEPT !.Margin.Left = l.v]
           [] property = "padding-top" -> [style EXCEPT !.Padding.Top = l.v]
           [] property = "padding-right" -> [style EXCEPT !.Padding.Right = l.v]
           [] property = "padding-bottom" -> [style EXCEPT !.Padding.Bottom = l.v]
           [] property = "padding-left" -> [style EXCEPT !.Padding.Left = l.v]
           [] property = "font-size" -> [style EXCEPT !.FontSize = l.v]

LengthProperties ==
    {"width", "height", "margin-top", "margin-right", "margin-bottom", "margin-left",
     "padding-top", "padding-right", "padding-bottom", "padding-left", "font-size"}

\* ApplyDeclaration: the properties that take a colour, c the parsed colour
applyColor(style, property, c) ==
    IF ~c.set THEN style
    ELSE CASE property = "color" -> [style EXCEPT !.Color = c.v]
           [] property \in {"background", "background-color"} ->
                [style EXCEPT !.Background = c.v]
           [] property = "border-color" -> [style EXCEPT !.BorderColor = c.v]

ColorProperties == {"color", "background", "background-color", "border-color"}

\* ApplyDeclaration: case "flex-grow"
applyFlexGrow(style, values) ==
    IF Len(values) > 0 /\ values[1].Type = "Number" /\ ParseFloat(values[1].Value).ok
    THEN [style EXCEPT !.FlexGrow = ParseFloat(values[1].Value).v]
    ELSE style

ApplyDeclaration(style, decl) ==
    CASE decl.Property = "display" ->
           (IF decl.Value \in {"block", "inline", "none", "flex"}
            THEN [style EXCEPT !.Display = decl.Value] ELSE style)
      [] decl.Property \in LengthProperties ->
           applyLength(style, decl.Property, parseLength(decl.Values))
      [] decl.Property = "margin" -> [style EXCEPT !.Margin = parseEdges(decl.Values)]
      [] decl.Property = "padding" -> [style EXCEPT !.Padding = parseEdges(decl.Values)]
      [] decl.Property = "border-width" ->
           [style EXCEPT !.Border = parseEdges(decl.Values)]
      [] decl.Property \in ColorProperties ->
           applyColor(style, decl.Property, parseColor(decl))
      [] decl.Property = "flex-grow" -> applyFlexGrow(style, decl.Values)
      [] decl.Property = "justify-content" ->
           (IF decl.Value \in {"flex-start", "flex-end", "center", "space-between",
                               "space-around"}
            THEN [style EXCEPT !.JustifyContent = decl.Value] ELSE style)
      [] decl.Property = "align-items" ->
           (IF decl.Value \in {"flex-start", "flex-end", "center", "stretch"}
            THEN [style EXCEPT !.AlignItems = decl.Value] ELSE style)
      [] OTHER -> style

----
\* package layout, the layout tree (src/layout/tree.go) and its construction
\* from the DOM (src/layout/build.go)

InvalidLayoutNodeID == -1

Rect(x, y, w, h) == [X |-> x, Y |-> y, W |-> w, H |-> h]

NewLayoutTree == [Nodes |-> <<>>, Root |-> InvalidLayoutNodeID]

\* LayoutTree.CreateNode; the id it returns is len(t.Nodes) before the call
CreateNode(t, domNode, style) ==
    [t EXCEPT !.Nodes = Append(@, [ID |-> Len(t.Nodes), DomNode |-> domNode,
                                   Style |-> style, Children |-> <<>>,
                                   Rect |-> Rect(0, 0, 0, 0), Text |-> ""])]

\* LayoutTree.AppendChild
layoutAppendChild(t, parent, child) ==
    [t EXCEPT !.Nodes[parent + 1].Children = Append(@, child)]

\* LayoutTree.GetNode(id) != nil
hasLayoutNode(t, id) == id >= 0 /\ id < Len(t.Nodes)

\* *LayoutTree.GetNode(id), where it is not nil
layoutGetNode(t, id) == t.Nodes[id + 1]

\* a nil *Stylesheet and a *Stylesheet to s
NilStylesheet == [set |-> FALSE, v |-> [Rules |-> <<>>]]

StylesheetPtr(s) == [set |-> TRUE, v |-> s]

\* matchesSelector: one selector of the list
matchesOne(node, sel) ==
    CASE sel.Type = "Tag" -> node.Tag = sel.Value
      [] sel.Type = "Class" ->
           "class" \in DOMAIN node.Attr /\ node.Attr["class"] = sel.Value
      [] sel.Type = "ID" -> "id" \in DOMAIN node.Attr /\ node.Attr["id"] = sel.Value
      [] OTHER -> FALSE

\* matchesSelector, were class and id selectors left out
matchesTagOnly(node, selectorList) ==
    \E i \in 1..Len(selectorList) :
        selectorList[i].Type = "Tag" /\ node.Tag = selectorList[i].Value

matchesSelector(node, selectorList) ==
    \E i \in 1..Len(selectorList) : matchesOne(node, selectorList[i])

\* computeStyle: the declarations of a rule from the i-th on, applied in order
RECURSIVE applyDeclarations(_, _, _)
applyDeclarations(style, decls, i) ==
    IF i > Len(decls) THEN style
    ELSE applyDeclarations(ApplyDeclaration(style, decls[i]), decls, i + 1)

\* computeStyle: the rules from the i-th on, the matching ones applied in order
RECURSIVE applyRules(_, _, _, _)
applyRules(style, node, ruleList, i) ==
    IF i > Len(ruleList) THEN style
    ELSE IF matchesSelector(node, ruleList[i].Selectors)
    THEN applyRules(applyDeclarations(style, ruleList[i].Declarations, 1),
                    node, ruleList, i + 1)
    ELSE applyRules(style, node, ruleList, i + 1)

\* computeStyle: the inherited properties
inherit(parentStyle) ==
    [DefaultStyle EXCEPT !.Color = parentStyle.Color, !.FontSize = parentStyle.FontSize]

\* computeStyle, were nothing inherited
computeStyleNoInherit(node, parentStyle, sheet) ==
    IF node.Type # "Element" THEN DefaultStyle
    ELSE IF ~sheet.set THEN DefaultStyle
    ELSE applyRules(DefaultStyle, node, sheet.v.Rules, 1)

computeStyle(node, parentStyle, sheet) ==
    IF node.Type # "Element" THEN inherit(parentStyle)
    ELSE IF ~sheet.set THEN inherit(parentStyle)
    ELSE applyRules(inherit(parentStyle), node, sheet.v.Rules, 1)

RECURSIVE findBody(_, _)

\* findBody: the loop over the children from the i-th on
RECURSIVE findBodyIn(_, _, _)
findBodyIn(d, children, i) ==
    IF i > Len(children) THEN InvalidNodeID
    ELSE Bind(findBody(d, children[i]), LAMBDA found :
             IF found # InvalidNodeID THEN found ELSE findBodyIn(d, children, i + 1))

findBody(d, nodeID) ==
    IF ~HasNode(d, nodeID) THEN InvalidNodeID
    ELSE IF GetNode(d, nodeID).Type = "Element" /\ GetNode(d, nodeID).Tag = "body"
    THEN nodeID
    ELSE findBodyIn(d, GetNode(d, nodeID).Children, 1)

\* build: the layout node of a DOM node, with the text of a text node
createLayoutNode(t, node, style) ==
    IF node.Type = "Text"
    THEN [CreateNode(t, node.ID, style) EXCEPT !.Nodes[Len(t.Nodes) + 1].Text = node.Text]
    ELSE CreateNode(t, node.ID, style)

\* build, were a node with display none laid out like any other
keepsNone(style) == FALSE

\* build: if style.Display == css.DisplayNone
isNone(style) == style.Display = "none"

RECURSIVE build(_, _, _, _, _)

\* build: the loop over the children from the i-th on, layoutID the node built
RECURSIVE buildChildren(_, _, _, _, _, _, _)
buildChildren(d, sheet, t, layoutID, children, i, style) ==
    IF i > Len(children) THEN [t |-> t, id |-> layoutID]
    ELSE Bind(build(d, sheet, t, children[i], style), LAMBDA r :
             buildChildren(d, sheet,
                           IF r.id # InvalidLayoutNodeID
                           THEN layoutAppendChild(r.t, layoutID, r.id) ELSE r.t,
                           layoutID, children, i + 1, style))

\* BuildLayoutTree: the closure build; t is the tree so far
build(d, sheet, t, nodeID, parentStyle) ==
    IF ~HasNode(d, nodeID) THEN [t |-> t, id |-> InvalidLayoutNodeID]
    ELSE Bind(computeStyle(GetNode(d, nodeID), parentStyle, sheet), LAMBDA style :
             IF isNone(style) THEN [t |-> t, id |-> InvalidLayoutNodeID]
             ELSE buildChildren(d, sheet, createLayoutNode(t, GetNode(d, nodeID), style),
                                Len(t.Nodes), GetNode(d, nodeID).Children, 1, style))

\* BuildLayoutTree: from the body found
buildFrom(d, sheet, bodyID) ==
    IF bodyID = InvalidNodeID THEN NewLayoutTree
    ELSE Bind(build(d, sheet, NewLayoutTree, bodyID, DefaultStyle), LAMBDA r :
             [r.t EXCEPT !.Root = r.id])

BuildLayoutTree(d, sheet) == buildFrom(d, sheet, findBody(d, d.Root))

----
\* package layout, the geometry (src/layout/compute.go)

\* estimateHeight: lineHeight := node.Style.FontSize * 1.5 (the font sizes of
\* the model are even)
lineHeight(style) == (3 * style.FontSize) \div 2

RECURSIVE estimateHeight(_, _)

\* estimateHeight: the loop over the children from the i-th on
RECURSIVE childrenHeight(_, _, _)
childrenHeight(t, children, i) ==
    IF i > Len(children) THEN 0
    ELSE IF hasLayoutNode(t, children[i])
    THEN estimateHeight(t, children[i])
         + layoutGetNode(t, children[i]).Style.Margin.Top
         + layoutGetNode(t, children[i]).Style.Margin.Bottom
         + childrenHeight(t, children, i + 1)
    ELSE childrenHeight(t, children, i + 1)

estimateHeight(t, nodeID) ==
    IF ~hasLayoutNode(t, nodeID) THEN 0
    ELSE LET node == layoutGetNode(t, nodeID)
         IN  IF node.Text # ""
             THEN lineHeight(node.Style) + node.Style.Padding.Top
                  + node.Style.Padding.Bottom
             ELSE IF node.Style.Height.set THEN node.Style.Height.v
             ELSE childrenHeight(t, node.Children, 1) + node.Style.Padding.Top
                  + node.Style.Padding.Bottom

\* layoutChildren: childW and childH of the child
childWidth(child, contentW) ==
    IF child.Style.Width.set THEN child.Style.Width.v ELSE contentW

childHeight(t, childID) ==
    IF layoutGetNode(t, childID).Style.Height.set
    THEN layoutGetNode(t, childID).Style.Height.v
    ELSE estimateHeight(t, childID)

\* layoutChildren: the rect of a child, were the cursor left out of its place
childRectNoCursor(t, childID, contentX, contentW, currentY) ==
    LET child == layoutGetNode(t, childID)
    IN  Rect(contentX + child.Style.Margin.Left, child.Style.Margin.Top,
             childWidth(child, contentW) - child.Style.Margin.Left
             - child.Style.Margin.Right,
             childHeight(t, childID))

\* layoutChildren: "Position child"
childRect(t, childID, contentX, contentW, currentY) ==
    LET child == layoutGetNode(t, childID)
    IN  Rect(contentX + child.Style.Margin.Left, currentY + child.Style.Margin.Top,
             childWidth(child, contentW) - child.Style.Margin.Left
             - child.Style.Margin.Right,
             childHeight(t, childID))

\* layoutChildren: "Move Y for next sibling"
nextY(t, childID) ==
    layoutGetNode(t, childID).Rect.Y + layoutGetNode(t, childID).Rect.H
    + layoutGetNode(t, childID).Style.Margin.Bottom

RECURSIVE layoutChildren(_, _)

\* layoutChildren: the loop over the children from the i-th on
RECURSIVE layoutLoop(_, _, _, _, _, _)
layoutLoop(t, nodeID, i, contentX, contentW, currentY) ==
    Bind(t, LAMBDA u :
        IF i > Len(layoutGetNode(u, nodeID).Children) THEN u
        ELSE Bind(layoutGetNode(u, nodeID).Children[i], LAMBDA childID :
            IF ~hasLayoutNode(u, childID)
            THEN layoutLoop(u, nodeID, i + 1, contentX, contentW, currentY)
            ELSE Bind([u EXCEPT !.Nodes[childID + 1].Rect =
                                   childRect(u, childID, contentX, contentW, currentY)],
                      LAMBDA w :
                          layoutLoop(layoutChildren(w, childID), nodeID, i + 1,
                                     contentX, contentW, nextY(w, childID)))))

\* layoutChildren: "Update parent height if auto", were the height set even
\* when the new one is smaller
growHeightAlways(t, nodeID) ==
    Bind(t, LAMBDA u :
        LET node == layoutGetNode(u, nodeID)
            lastID == node.Children[Len(node.Children)]
            newH == nextY(u, lastID) - node.Rect.Y + node.Style.Padding.Bottom
                    + node.Style.Margin.Bottom
        IN  IF ~node.Style.Height.set /\ Len(node.Children) > 0
               /\ hasLayoutNode(u, lastID)
            THEN [u EXCEPT !.Nodes[nodeID + 1].Rect.H = newH]
            ELSE u)

\* layoutChildren: "Update parent height if auto"
growHeight(t, nodeID) ==
    Bind(t, LAMBDA u :
        LET node == layoutGetNode(u, nodeID)
            lastID == node.Children[Len(node.Children)]
            newH == nextY(u, lastID) - node.Rect.Y + node.Style.Padding.Bottom
                    + node.Style.Margin.Bottom
        IN  IF ~node.Style.Height.set /\ Len(node.Children) > 0
               /\ hasLayoutNode(u, lastID) /\ newH > node.Rect.H
            THEN [u EXCEPT !.Nodes[nodeID + 1].Rect.H = newH]
            ELSE u)

layoutChildren(t, nodeID) ==
    IF ~hasLayoutNode(t, nodeID) THEN t
    ELSE LET node == layoutGetNode(t, nodeID)
         IN  growHeight(
                 layoutLoop(t, nodeID, 1,
                            node.Rect.X + node.Style.Margin.Left + node.Style.Padding.Left,
                            node.Rect.W - node.Style.Margin.Left - node.Style.Margin.Right
                            - node.Style.Padding.Left - node.Style.Padding.Right,
                            node.Rect.Y + node.Style.Margin.Top + node.Style.Padding.Top),
                 nodeID)

ComputeLayout(t, viewportWidth, viewportHeight) ==
    IF t.Root = InvalidLayoutNodeID \/ ~hasLayoutNode(t, t.Root) THEN t
    ELSE layoutChildren(
             [t EXCEPT !.Nodes[t.Root + 1].Rect = Rect(0, 0, viewportWidth, viewportHeight)],
             t.Root)

----
\* package paint, the paint list (src/paint/ops.go) and the walk of the layout
\* tree that fills it (src/paint/paint.go)

PaintOp(kind, rect, color, txt, fontSize) ==
    [Kind |-> kind, Rect |-> rect, Color |-> color, Text |-> txt, FontSize |-> fontSize]

NewPaintList == [Ops |-> <<>>]

\* The zero value of the fields of a PaintOp that a Push leaves out.
NoColor == Color(0, 0, 0, 0)

PushFillRect(list, rect, color) ==
    [list EXCEPT !.Ops = Append(@, PaintOp("FillRect", rect, color, "", 0))]

PushStrokeRect(list, rect, color) ==
    [list EXCEPT !.Ops = Append(@, PaintOp("StrokeRect", rect, color, "", 0))]

PushDrawText(list, rect, txt, color, fontSize) ==
    [list EXCEPT !.Ops = Append(@, PaintOp("DrawText", rect, color, txt, fontSize))]

PushClipRect(list, rect) ==
    [list EXCEPT !.Ops = Append(@, PaintOp("ClipRect", rect, NoColor, "", 0))]

\* paintBorder: the four edges, each pushed if its width is positive
pushTop(list, rect, color, border) ==
    IF border.Top > 0
    THEN PushFillRect(list, Rect(rect.X, rect.Y, rect.W, border.Top), color)
    ELSE list

pushRight(list, rect, color, border) ==
    IF border.Right > 0
    THEN PushFillRect(list, Rect(rect.X + rect.W - border.Right, rect.Y,
                                 border.Right, rect.H), color)
    ELSE list

pushBottom(list, rect, color, border) ==
    IF border.Bottom > 0
    THEN PushFillRect(list, Rect(rect.X, rect.Y + rect.H - border.Bottom,
                                 rect.W, border.Bottom), color)
    ELSE list

pushLeft(list, rect, color, border) ==
    IF border.Left > 0
    THEN PushFillRect(list, Rect(rect.X, rect.Y, border.Left, rect.H), color)
    ELSE list

\* paintBorder, were the left edge painted before the bottom one
paintBorderLeftFirst(node, list) ==
    pushBottom(pushLeft(pushRight(pushTop(list, node.Rect, node.Style.BorderColor,
                                          node.Style.Border),
                                  node.Rect, node.Style.BorderColor, node.Style.Border),
                        node.Rect, node.Style.BorderColor, node.Style.Border),
               node.Rect, node.Style.BorderColor, node.Style.Border)

paintBorder(node, list) ==
    pushLeft(pushBottom(pushRight(pushTop(list, node.Rect, node.Style.BorderColor,
                                          node.Style.Border),
                                  node.Rect, node.Style.BorderColor, node.Style.Border),
                        node.Rect, node.Style.BorderColor, node.Style.Border),
             node.Rect, node.Style.BorderColor, node.Style.Border)

\* paintNode: "Paint background"
paintNodeBackground(node, list) ==
    IF node.Style.Background.A > 0
    THEN PushFillRect(list, node.Rect, node.Style.Background)
    ELSE list

\* paintNode: "Paint border"
paintNodeBorder(node, list) ==
    IF node.Style.Border.Top > 0 \/ node.Style.Border.Right > 0
       \/ node.Style.Border.Bottom > 0 \/ node.Style.Border.Left > 0
    THEN paintBorder(node, list)
    ELSE list

\* paintNode: "Paint text"
paintNodeText(node, list) ==
    IF node.Text # ""
    THEN PushDrawText(list,
                      Rect(node.Rect.X + node.Style.Padding.Left,
                           node.Rect.Y + node.Style.Padding.Top,
                           node.Rect.W - node.Style.Padding.Left - node.Style.Padding.Right,
                           node.Rect.H - node.Style.Padding.Top - node.Style.Padding.Bottom),
                      node.Text, node.Style.Color, node.Style.FontSize)
    ELSE list

RECURSIVE paintNode(_, _, _)

\* paintNode: "Paint children", from the i-th on
RECURSIVE paintChildren(_, _, _, _)
paintChildren(t, children, i, list) ==
    IF i > Len(children) THEN list
    ELSE paintChildren(t, children, i + 1, paintNode(t, children[i], list))

paintNode(t, nodeID, list) ==
    IF ~hasLayoutNode(t, nodeID) THEN list
    ELSE paintChildren(t, layoutGetNode(t, nodeID).Children, 1,
             paintNodeText(layoutGetNode(t, nodeID),
                 paintNodeBorder(layoutGetNode(t, nodeID),
                     paintNodeBackground(layoutGetNode(t, nodeID), list))))

Paint(t) ==
    IF t.Root = InvalidLayoutNodeID THEN NewPaintList
    ELSE paintNode(t, t.Root, NewPaintList)

PaintBackground(list, width, height, color) ==
    PushFillRect(list, Rect(0, 0, width, height), color)

\* Render, were the tree painted before the page
appendOpsFirst(list, ops) == [list EXCEPT !.Ops = ops.Ops \o @]

\* Render: paintList.Ops = append(paintList.Ops, ops.Ops...)
appendOps(list, ops) == [list EXCEPT !.Ops = @ \o ops.Ops]

----
\* SpecRender: Renderer.Render(d, stylesheet, path) on renderer.New(W, H)
\* (src/unnamed/part_004), one call of Render a step, up to the paint list it
\* hands to the rasteriser.  The document is what the DOM parser builds from a
\* token sequence, the stylesheet what css.Parse returns for a text, or nil.

\* The tokens the documents are parsed from.
DocTokens ==
    {[Type |-> "StartTag", Data |-> "div",
      Attributes |-> <<[Key |-> "class", Value |-> "c"]>>],
     [Type |-> "StartTag", Data |-> "p", Attributes |-> <<[Key |-> "id", Value |-> "i"]>>],
     [Type |-> "StartTag", Data |-> "title", Attributes |-> <<>>],
     [Type |-> "EndTag", Data |-> "div", Attributes |-> <<>>],
     [Type |-> "Text", Data |-> "T", Attributes |-> <<>>]}

\* The token sequences of at most n tokens; no Text token follows another.
RECURSIVE DocTokenSeqs(_)
DocTokenSeqs(n) ==
    IF n = 0 THEN {<<>>}
    ELSE LET S == DocTokenSeqs(n - 1)
         IN  S \cup {Append(q, tok) : q \in S, tok \in DocTokens}

NoTextRun(q) ==
    \A i \in 1..(Len(q) - 1) : ~(q[i].Type = "Text" /\ q[i + 1].Type = "Text")

\* Parser.parse on the tokens of q from the i-th on
RECURSIVE parseTokens(_, _, _)
parseTokens(p, q, i) ==
    IF i > Len(q) THEN p ELSE parseTokens(handleToken(p, q[i]), q, i + 1)

Documents ==
    {parseTokens(NewParser, q, 1).dom : q \in {r \in DocTokenSeqs(MaxDocTokens) : NoTextRun(r)}}

\* The rules the stylesheets are written from.
SheetRules ==
    {"p{color:red;font-size:20px}",
     ".c{display:none}",
     "body{display:none}",
     "div{height:50px;margin-top:10px}",
     "div{margin-top:-10px}",
     "div{width:100px;margin-left:10px}",
     "body{padding:5px;margin:3px}",
     "div{background:#00f;border-width:1px 0 2px 3px}",
     "p,#j{margin:4px 6px;padding:2px;border-color:rgb(1,2,3);color:blue}"}

RECURSIVE SheetTexts(_)
SheetTexts(n) ==
    IF n = 0 THEN {""}
    ELSE LET S == SheetTexts(n - 1) IN S \cup {x \o r : x \in S, r \in SheetRules}

Stylesheets ==
    {NilStylesheet} \cup {StylesheetPtr(Parse(x)) : x \in SheetTexts(MaxSheetRules)}

\* renderer.New(width, height): main's 800 by 600, and a smaller one
Viewports == {[Width |-> 800, Height |-> 600], [Width |-> 90, Height |-> 20]}

InitRender == FrontIdle /\ BackIdle /\ pc = "render"

\* Render is called.
RenderStart ==
    /\ pc = "render"
    /\ doc' \in Documents
    /\ stylesheet' \in Stylesheets
    /\ viewport' \in Viewports
    /\ pc' = "build"
    /\ UNCHANGED <<frontVars, auxVars, cssVars, rasterVars, layoutTree, paintList>>

\* layoutTree := layout.BuildLayoutTree(d, stylesheet)
RenderBuild ==
    /\ pc = "build"
    /\ layoutTree' = BuildLayoutTree(doc, stylesheet)
    /\ pc' = "layout"
    /\ UNCHANGED <<frontVars, auxVars, cssVars, rasterVars, doc, stylesheet, viewport, paintList>>

\* layout.ComputeLayout(layoutTree, float32(r.Width), float32(r.Height))
RenderLayout ==
    /\ pc = "layout"
    /\ layoutTree' = ComputeLayout(layoutTree, viewport.Width, viewport.Height)
    /\ pc' = "background"
    /\ UNCHANGED <<frontVars, auxVars, cssVars, rasterVars, doc, stylesheet, viewport, paintList>>

\* paintList := paint.NewPaintList(); paint.PaintBackground(paintList, ...)
RenderBackground ==
    /\ pc = "background"
    /\ paintList' = PaintBackground(NewPaintList, viewport.Width, viewport.Height,
                                    ColorWhite)
    /\ pc' = "paint"
    /\ UNCHANGED <<frontVars, auxVars, cssVars, rasterVars, doc, stylesheet, viewport, layoutTree>>

\* ops := paint.Paint(layoutTree); paintList.Ops = append(paintList.Ops, ops.Ops...)
RenderPaint ==
    /\ pc = "paint"
    /\ paintList' = appendOps(paintList, Paint(layoutTree))
    /\ pc' = "rendered"
    /\ UNCHANGED <<frontVars, auxVars, cssVars, rasterVars, doc, stylesheet, viewport, layoutTree>>

NextRender ==
    \/ RenderStart
    \/ RenderBuild
    \/ RenderLayout
    \/ RenderBackground
    \/ RenderPaint

SpecRender == InitRender /\ [][NextRender]_vars

----
\* Vocabulary of the claims about a rendered page.

\* BuildLayoutTree has returned; ComputeLayout has returned.
Built == pc \in {"layout", "background", "paint", "rendered"}

LaidOut == pc \in {"background", "paint", "rendered"}

LayoutIDs == 0..(Len(layoutTree.Nodes) - 1)

LNode(n) == layoutTree.Nodes[n + 1]

\* The DOM node a layout node was created for.
DomOf(n) == doc.Nodes[LNode(n).DomNode + 1]

IsLayoutChild(m, n) == \E i \in 1..Len(LNode(m).Children) : LNode(m).Children[i] = n

HasLayoutParent(n) == \E m \in LayoutIDs : IsLayoutChild(m, n)

LayoutParent(n) == CHOOSE m \in LayoutIDs : IsLayoutChild(m, n)

\* The computed style of the parent build() was given for n: the body is built
\* from the default style.
ParentStyle(n) == IF HasLayoutParent(n) THEN LNode(LayoutParent(n)).Style ELSE DefaultStyle

\* The declarations of the rules from the i-th on that match the DOM node d, in
\* the order of the stylesheet.
RECURSIVE MatchedFrom(_, _)
MatchedFrom(d, i) ==
    IF ~stylesheet.set \/ i > Len(stylesheet.v.Rules) THEN <<>>
    ELSE IF \E k \in 1..Len(stylesheet.v.Rules[i].Selectors) :
                LET sel == stylesheet.v.Rules[i].Selectors[k]
                IN  \/ sel.Type = "Tag" /\ sel.Value = d.Tag
                    \/ sel.Type = "Class" /\ "class" \in DOMAIN d.Attr
                       /\ d.Attr["class"] = sel.Value
                    \/ sel.Type = "ID" /\ "id" \in DOMAIN d.Attr /\ d.Attr["id"] = sel.Value
    THEN stylesheet.v.Rules[i].Declarations \o MatchedFrom(d, i + 1)
    ELSE MatchedFrom(d, i + 1)

Matched(d) == IF d.Type = "Element" THEN MatchedFrom(d, 1) ELSE <<>>

\* No declaration matching d names one of the properties.
Unset(d, properties) ==
    \A i \in 1..Len(Matched(d)) : Matched(d)[i].Property \notin properties

\* The last declaration matching d that names the property has this value.
LastSets(d, property, value) ==
    \E i \in 1..Len(Matched(d)) :
        /\ Matched(d)[i].Property = property
        /\ Matched(d)[i].Value = value
        /\ \A j \in (i + 1)..Len(Matched(d)) : Matched(d)[j].Property # property

EdgeProperties(name) ==
    {name, name \o "-top", name \o "-right", name \o "-bottom", name \o "-left"}

----
\* C11

\* The style of an element d: what no matching declaration names is inherited
\* (colour, font size) or the default (all else).
C11_Defaults(style, parent, d) ==
    /\ Unset(d, {"color"}) => style.Color = parent.Color
    /\ Unset(d, {"font-size"}) => style.FontSize = parent.FontSize
    /\ Unset(d, {"display"}) => style.Display = DefaultStyle.Display
    /\ Unset(d, {"width"}) => style.Width = DefaultStyle.Width
    /\ Unset(d, {"height"}) => style.Height = DefaultStyle.Height
    /\ Unset(d, EdgeProperties("margin")) => style.Margin = DefaultStyle.Margin
    /\ Unset(d, EdgeProperties("padding")) => style.Padding = DefaultStyle.Padding
    /\ Unset(d, {"border-width"}) => style.Border = DefaultStyle.Border
    /\ Unset(d, {"background", "background-color"}) =>
           style.Background = DefaultStyle.Background
    /\ Unset(d, {"border-color"}) => style.BorderColor = DefaultStyle.BorderColor
    /\ Unset(d, {"flex-grow"}) => style.FlexGrow = DefaultStyle.FlexGrow
    /\ Unset(d, {"justify-content"}) => style.JustifyContent = DefaultStyle.JustifyContent
    /\ Unset(d, {"align-items"}) => style.AlignItems = DefaultStyle.AlignItems

\* The style of an element d: what the last matching declaration of a property
\* sets.
C11_Overrides(style, d) ==
    /\ LastSets(d, "color", "red") => style.Color = Color(255, 0, 0, 255)
    /\ LastSets(d, "color", "blue") => style.Color = Color(0, 0, 255, 255)
    /\ LastSets(d, "font-size", "20px") => style.FontSize = 20
    /\ LastSets(d, "height", "50px") => style.Height = Length(50)
    /\ LastSets(d, "margin-top", "-10px") => style.Margin.Top = 0 - 10

\* C11: the computed style of a node takes its colour and font size from the
\* parent's computed style and every other property from the default style,
\* except for what a declaration of a matching rule sets; a text node has the
\* parent's colour and font size and the defaults for all else.
C11_Cascade ==
    Built =>
        \A n \in LayoutIDs :
            IF DomOf(n).Type = "Element"
            THEN /\ C11_Defaults(LNode(n).Style, ParentStyle(n), DomOf(n))
                 /\ C11_Overrides(LNode(n).Style, DomOf(n))
            ELSE LNode(n).Style = [DefaultStyle EXCEPT !.Color = ParentStyle(n).Color,
                                                       !.FontSize = ParentStyle(n).FontSize]

\* C11: a <p> made red and 20 pixels by a rule, under a black 16 pixel body,
\* with a text child that has both from it.
C11_Witness ==
    /\ Built
    /\ \E n \in LayoutIDs, m \in LayoutIDs :
           /\ DomOf(n).Tag = "p" /\ IsLayoutChild(n, m) /\ DomOf(m).Type = "Text"
           /\ ParentStyle(n).Color = ColorBlack /\ ParentStyle(n).FontSize = 16
           /\ LNode(n).Style.Color = Color(255, 0, 0, 255) /\ LNode(n).Style.FontSize = 20
           /\ LNode(m).Style.Color = Color(255, 0, 0, 255) /\ LNode(m).Style.FontSize = 20
           /\ LNode(m).Style.Margin = NoEdges

----
\* C12

\* The content origin of a layout node: its rect's origin moved in by its
\* top/left margin and padding.
ContentX(n) == LNode(n).Rect.X + LNode(n).Style.Margin.Left + LNode(n).Style.Padding.Left

ContentY(n) == LNode(n).Rect.Y + LNode(n).Style.Margin.Top + LNode(n).Style.Padding.Top

\* C12: after ComputeLayout every child lies at or below the content origin of
\* its parent, at the parent's content x plus its own left margin, and the
\* children of a parent have non-decreasing y in document order.
C12_LayoutSanity ==
    LaidOut =>
        \A n \in LayoutIDs :
            LET children == LNode(n).Children
            IN  /\ \A i \in 1..Len(children) :
                       /\ LNode(children[i]).Rect.Y >= ContentY(n)
                       /\ LNode(children[i]).Rect.X
                              = ContentX(n) + LNode(children[i]).Style.Margin.Left
                /\ \A i \in 1..(Len(children) - 1) :
                       LNode(children[i]).Rect.Y <= LNode(children[i + 1]).Rect.Y

----
\* C13

\* Children i and i + 1 of n both have an explicit height.
C13_ExplicitPair(n, i) ==
    /\ LNode(LNode(n).Children[i]).Style.Height.set
    /\ LNode(LNode(n).Children[i + 1]).Style.Height.set

\* C13: the first child of a parent lies at the parent's content origin y plus
\* its own top margin; a sibling that follows one with an explicit height, and
\* has one itself, lies at the y of the one before plus that one's height and
\* bottom margin plus its own top margin.
C13_BlockFlow ==
    LaidOut =>
        \A n \in LayoutIDs :
            LET children == LNode(n).Children
            IN  /\ Len(children) > 0 =>
                       LNode(children[1]).Rect.Y
                           = ContentY(n) + LNode(children[1]).Style.Margin.Top
                /\ \A i \in 1..(Len(children) - 1) :
                       C13_ExplicitPair(n, i) =>
                           LNode(children[i + 1]).Rect.Y
                               = LNode(children[i]).Rect.Y
                                 + LNode(children[i]).Style.Height.v
                                 + LNode(children[i]).Style.Margin.Bottom
                                 + LNode(children[i + 1]).Style.Margin.Top

\* C13: two divs of height 50 and top margin 10 in a body without margin and
\* padding lie at y = 10 and y = 70.
C13_Witness ==
    /\ LaidOut
    /\ layoutTree.Root # InvalidLayoutNodeID
    /\ ContentY(layoutTree.Root) = 0
    /\ Len(LNode(layoutTree.Root).Children) = 2
    /\ \A i \in 1..2 :
           LET c == LNode(LNode(layoutTree.Root).Children[i])
           IN  c.Style.Height = Length(50) /\ c.Style.Margin = Edges(10, 0, 0, 0)
    /\ LNode(LNode(layoutTree.Root).Children[1]).Rect.Y = 10
    /\ LNode(LNode(layoutTree.Root).Children[2]).Rect.Y = 70

----
\* C14

\* The content width of a layout node: its rect's width less its left/right
\* margin and padding.
ContentW(n) ==
    LNode(n).Rect.W - LNode(n).Style.Margin.Left - LNode(n).Style.Margin.Right
    - LNode(n).Style.Padding.Left - LNode(n).Style.Padding.Right

\* C14: after ComputeLayout the rect of a node other than the root is as wide
\* as its explicit width, if its style sets one, and else as wide as the content
\* of its parent, whatever its own left and right margins.
C14_RectWidth ==
    LaidOut =>
        \A n \in LayoutIDs :
            HasLayoutParent(n) =>
                LNode(n).Rect.W = IF LNode(n).Style.Width.set
                                  THEN LNode(n).Style.Width.v
                                  ELSE ContentW(LayoutParent(n))

----
\* C15

\* The op of the background of layout node n, if it is not transparent.
C15_Background(n) ==
    IF LNode(n).Style.Background.A > 0
    THEN <<PaintOp("FillRect", LNode(n).Rect, LNode(n).Style.Background, "", 0)>>
    ELSE <<>>

\* The strip of an edge of n: top, right, bottom, left are edges 1 to 4.
C15_Strip(n, e) ==
    LET r == LNode(n).Rect
        b == LNode(n).Style.Border
    IN  CASE e = 1 -> Rect(r.X, r.Y, r.W, b.Top)
          [] e = 2 -> Rect(r.X + r.W - b.Right, r.Y, b.Right, r.H)
          [] e = 3 -> Rect(r.X, r.Y + r.H - b.Bottom, r.W, b.Bottom)
          [] e = 4 -> Rect(r.X, r.Y, b.Left, r.H)

C15_EdgeWidth(n, e) ==
    LET b == LNode(n).Style.Border
    IN  CASE e = 1 -> b.Top [] e = 2 -> b.Right [] e = 3 -> b.Bottom [] e = 4 -> b.Left

\* The ops of the border of n: the edges from e on that have a positive width.
RECURSIVE C15_Border(_, _)
C15_Border(n, e) ==
    IF e > 4 THEN <<>>
    ELSE (IF C15_EdgeWidth(n, e) > 0
          THEN <<PaintOp("FillRect", C15_Strip(n, e), LNode(n).Style.BorderColor, "", 0)>>
          ELSE <<>>) \o C15_Border(n, e + 1)

\* The op of the text of n, if it has one: the rect is n's, inset by its padding.
C15_Text(n) ==
    LET r == LNode(n).Rect
        q == LNode(n).Style.Padding
    IN  IF LNode(n).Text # ""
        THEN <<PaintOp("DrawText",
                       Rect(r.X + q.Left, r.Y + q.Top, r.W - q.Left - q.Right,
                            r.H - q.Top - q.Bottom),
                       LNode(n).Style.Color, LNode(n).Text, LNode(n).Style.FontSize)>>
        ELSE <<>>

C15_Own(n) == C15_Background(n) \o C15_Border(n, 1) \o C15_Text(n)

\* The ops of the subtree of n in depth-first pre-order: n's own, then those of
\* the subtrees of its children from the i-th on.
RECURSIVE C15_Subtree(_)
RECURSIVE C15_Forest(_, _)
C15_Forest(children, i) ==
    IF i > Len(children) THEN <<>>
    ELSE C15_Subtree(children[i]) \o C15_Forest(children, i + 1)

C15_Subtree(n) == C15_Own(n) \o C15_Forest(LNode(n).Children, 1)

\* The ops of the tree walk in the paint list of a rendered page: those after
\* the op of the page.
WalkOps == SubSeq(paintList.Ops, 2, Len(paintList.Ops))

\* C15: the tree walk emits, for each layout node in depth-first pre-order, the
\* background FillRect (if the alpha is positive), one FillRect for each border
\* edge of positive width in the order top, right, bottom, left in the border
\* colour, and the DrawText (if the node has text) with the rect inset by the
\* padding; the ops of a node come before those of its descendants and those
\* of a subtree before those of the next sibling's; a node without any of the
\* three emits nothing.
C15_PaintOrder ==
    pc = "rendered" =>
        WalkOps = IF layoutTree.Root = InvalidLayoutNodeID THEN <<>>
                  ELSE C15_Subtree(layoutTree.Root)

\* C15: a page whose body emits nothing and whose first child emits its
\* background, a top, a bottom and a left edge (the right one is 0), followed
\* by the text of a descendant.
C15_Witness ==
    /\ pc = "rendered"
    /\ layoutTree.Root # InvalidLayoutNodeID
    /\ C15_Own(layoutTree.Root) = <<>>
    /\ Len(WalkOps) = 5
    /\ \E n \in LayoutIDs :
           /\ LNode(n).Style.Border = Edges(1, 0, 2, 3)
           /\ \A i \in 1..4 : WalkOps[i].Kind = "FillRect"
           /\ WalkOps[1].Color = LNode(n).Style.Background
           /\ WalkOps[2].Rect.H = 1 /\ WalkOps[3].Rect.H = 2 /\ WalkOps[4].Rect.W = 3
    /\ WalkOps[5].Kind = "DrawText" /\ WalkOps[5].Text = "T"

----
\* C16

\* The op of the page: the whole viewport in white.
C16_PageOp ==
    PaintOp("FillRect", Rect(0, 0, viewport.Width, viewport.Height),
            Color(255, 255, 255, 255), "", 0)

\* The ops the nodes of the layout tree owe, counted.
RECURSIVE C16_OwedBy(_)
C16_OwedBy(n) == IF n < 0 THEN 0 ELSE Len(C15_Own(n)) + C16_OwedBy(n - 1)

\* The paint list handed to the rasteriser: the op of the page first, then the
\* ops of the nodes and nothing else.
C16_Handed ==
    pc = "rendered" =>
        /\ Len(paintList.Ops) >= 1
        /\ paintList.Ops[1] = C16_PageOp
        /\ Len(paintList.Ops) = 1 + C16_OwedBy(Len(layoutTree.Nodes) - 1)
        /\ \A i \in 2..Len(paintList.Ops) :
               \E n \in LayoutIDs :
                   \E k \in 1..Len(C15_Own(n)) : paintList.Ops[i] = C15_Own(n)[k]
        /\ (layoutTree.Root = InvalidLayoutNodeID => Len(paintList.Ops) = 1)

\* The tree walk appends to the list that holds the op of the page.
C16_WalkAppends ==
    (pc = "paint" /\ pc' = "rendered") =>
        /\ paintList.Ops = <<C16_PageOp>>
        /\ SubSeq(paintList'.Ops, 1, 1) = paintList.Ops

\* C16: the first op of every paint list the renderer hands to the rasteriser
\* is the FillRect of (0, 0, W, H) in white; it is emitted before the tree walk
\* and precedes every op of the walk, and it is the only op if the layout tree
\* is empty.
C16_PageFirst == []C16_Handed /\ [][C16_WalkAppends]_vars

\* C16: a rendered page of 800 by 600 whose walk emitted ops, behind the op of
\* the page.
C16_Witness ==
    /\ pc = "rendered"
    /\ viewport = [Width |-> 800, Height |-> 600]
    /\ Len(paintList.Ops) > 2
    /\ paintList.Ops[1] = PaintOp("FillRect", Rect(0, 0, 800, 600), ColorWhite, "", 0)
    /\ paintList.Ops[2].Color # ColorWhite

----
\* C17

DocIDs == 0..(Len(doc.Nodes) - 1)

DocNode(n) == doc.Nodes[n + 1]

\* The DOM nodes in document order (depth-first pre-order) under node n; the
\* forest of the children from the i-th on.
RECURSIVE C17_PreOrder(_)
RECURSIVE C17_PreOrderFrom(_, _)
C17_PreOrderFrom(children, i) ==
    IF i > Len(children) THEN <<>>
    ELSE C17_PreOrder(children[i]) \o C17_PreOrderFrom(children, i + 1)

C17_PreOrder(n) == <<n>> \o C17_PreOrderFrom(DocNode(n).Children, 1)

IsBody(n) == DocNode(n).Type = "Element" /\ DocNode(n).Tag = "body"

\* The <body> elements reachable from the root, in document order.
C17_Bodies ==
    IF doc.Root = InvalidNodeID THEN <<>>
    ELSE SelectSeq(C17_PreOrder(doc.Root), IsBody)

\* The first <body>, or InvalidNodeID.
C17_Body == IF C17_Bodies = <<>> THEN InvalidNodeID ELSE C17_Bodies[1]

\* The computed display of DOM node n is none: the last declaration matching
\* it that sets a display sets none.
C17_None(n) ==
    \E i \in 1..Len(Matched(DocNode(n))) :
        /\ Matched(DocNode(n))[i].Property = "display"
        /\ Matched(DocNode(n))[i].Value = "none"
        /\ \A j \in (i + 1)..Len(Matched(DocNode(n))) :
               ~(/\ Matched(DocNode(n))[j].Property = "display"
                 /\ Matched(DocNode(n))[j].Value \in {"block", "inline", "flex"})

\* DOM node n is in the subtree of the first <body> and neither it nor any of
\* its ancestors up to the <body> has display none.
RECURSIVE C17_Shown(_)
C17_Shown(n) ==
    IF n = InvalidNodeID THEN FALSE
    ELSE IF n = C17_Body THEN ~C17_None(n)
    ELSE ~C17_None(n) /\ C17_Shown(DocNode(n).Parent)

\* The layout nodes created for DOM node n.
C17_LayoutOf(n) == {l \in LayoutIDs : LNode(l).DomNode = n}

\* The DOM nodes of the layout children of l, in their order.
C17_ChildDoms(l) == [i \in 1..Len(LNode(l).Children) |-> LNode(LNode(l).Children[i]).DomNode]

\* C17: BuildLayoutTree creates one layout node for each DOM node of the
\* subtree of the first <body> that has no display none on it or on an ancestor
\* up to the <body>, and none for any other; the layout children of a node are
\* the shown children of its DOM node in document order; the root is the
\* layout node of the <body>, or InvalidLayoutNodeID if there is no <body> or
\* its display is none.
C17_Tree ==
    Built =>
        /\ \A n \in DocIDs :
               Cardinality(C17_LayoutOf(n)) = IF C17_Shown(n) THEN 1 ELSE 0
        /\ \A l \in LayoutIDs :
               C17_ChildDoms(l) = SelectSeq(DomOf(l).Children, C17_Shown)
        /\ IF C17_Shown(C17_Body)
           THEN layoutTree.Root \in C17_LayoutOf(C17_Body)
           ELSE layoutTree.Root = InvalidLayoutNodeID

\* C17: a shown body with a child of display none that has a child of its own;
\* neither has a layout node.
C17_Witness ==
    /\ Built
    /\ layoutTree.Root # InvalidLayoutNodeID
    /\ \E n \in DocIDs, m \in DocIDs :
           /\ DocNode(n).Parent = C17_Body /\ C17_None(n)
           /\ DocNode(m).Parent = n /\ ~C17_None(m)
           /\ C17_LayoutOf(n) = {} /\ C17_LayoutOf(m) = {}

----
\* package paint, the rasteriser (src/unnamed/part_002)
\*
\* An image is [Rect, Stride, Pix]: Rect its bounds [MinX, MinY, MaxX, MaxY],
\* Pix one colour for each pixel in row-major order (the four bytes of a pixel
\* are written together), Stride the bytes of a row.  An image value under
\* construction carries the history W of its pixel writes, [x, y, i] with i the
\* offset of the pixel's first byte in the buffer.

\* image.Rect(x0, y0, x1, y1): the rectangle is made well-formed
imageRect(x0, y0, x1, y1) ==
    [MinX |-> IF x0 > x1 THEN x1 ELSE x0, MinY |-> IF y0 > y1 THEN y1 ELSE y0,
     MaxX |-> IF x0 > x1 THEN x0 ELSE x1, MaxY |-> IF y0 > y1 THEN y0 ELSE y1]

\* image.NewRGBA(r): transparent pixels
NewRGBA(r) ==
    [Rect |-> r, Stride |-> 4 * (r.MaxX - r.MinX),
     Pix |-> [k \in 1..((r.MaxX - r.MinX) * (r.MaxY - r.MinY)) |-> Color(0, 0, 0, 0)],
     W |-> {}]

\* image.Point{x, y}.In(r)
In(x, y, r) == r.MinX <= x /\ x < r.MaxX /\ r.MinY <= y /\ y < r.MaxY

\* RGBA.PixOffset(x, y)
PixOffset(im, x, y) == (y - im.Rect.MinY) * im.Stride + (x - im.Rect.MinX) * 4

\* The write of the four bytes at offset i of Pix; a write outside the buffer
\* changes no pixel of it.
writePix(im, x, y, i, c) ==
    [im EXCEPT !.Pix = IF i >= 0 /\ i + 3 < 4 * Len(im.Pix) /\ i % 4 = 0
                       THEN [@ EXCEPT ![(i \div 4) + 1] = c] ELSE @,
               !.W = @ \cup {[x |-> x, y |-> y, i |-> i]}]

\* img.Set(x, y, col), were the point not checked against the bounds
SetUnchecked(im, x, y, c) == writePix(im, x, y, PixOffset(im, x, y), c)

\* img.Set(x, y, col)
Set(im, x, y, c) ==
    IF ~In(x, y, im.Rect) THEN im ELSE writePix(im, x, y, PixOffset(im, x, y), c)

\* for x := x0; x < x1; x++ { img.Set(x, y, col) }
RECURSIVE setRow(_, _, _, _, _)
setRow(im, x, x1, y, c) ==
    IF x >= x1 THEN im
    ELSE Bind(Set(im, x, y, c), LAMBDA m : Bind(x + 1, LAMBDA n : setRow(m, n, x1, y, c)))

\* for y := y0; y < y1; y++ { img.Set(x, y, col) }
RECURSIVE setColumn(_, _, _, _, _)
setColumn(im, y, y1, x, c) ==
    IF y >= y1 THEN im
    ELSE Bind(Set(im, x, y, c), LAMBDA m :
             Bind(y + 1, LAMBDA n : setColumn(m, n, y1, x, c)))

\* for y := y0; y < y1; y++ { for x := x0; x < x1; x++ { img.Set(x, y, col) } }
RECURSIVE setRows(_, _, _, _, _, _)
setRows(im, y, y1, x0, x1, c) ==
    IF y >= y1 THEN im
    ELSE Bind(setRow(im, x0, x1, y, c), LAMBDA m :
             Bind(y + 1, LAMBDA n : setRows(m, n, y1, x0, x1, c)))

\* fillRect: x0, y0 raised to the bounds and x1, y1 lowered to them
clampLow(v, low) == IF v < low THEN low ELSE v

clampHigh(v, high) == IF v > high THEN high ELSE v

\* fillRect; int() of a whole float32 is the number itself
fillRect(im, op) ==
    setRows(im, clampLow(op.Rect.Y, im.Rect.MinY),
            clampHigh(op.Rect.Y + op.Rect.H, im.Rect.MaxY),
            clampLow(op.Rect.X, im.Rect.MinX),
            clampHigh(op.Rect.X + op.Rect.W, im.Rect.MaxX), op.Color)

\* strokeRect: the top, bottom, left and right edge
strokeRect(im, op) ==
    LET x0 == op.Rect.X
        y0 == op.Rect.Y
        x1 == op.Rect.X + op.Rect.W
        y1 == op.Rect.Y + op.Rect.H
    IN  setColumn(setColumn(setRow(setRow(im, x0, x1, y0, op.Color),
                                   x0, x1, y1 - 1, op.Color),
                            y0, y1, x0, op.Color),
                  y0, y1, x1 - 1, op.Color)

\* basicfont.Face7x13: the advance, and the width, height and ascent of a glyph
GlyphAdvance == 7

GlyphWidth == 6

GlyphHeight == 13

GlyphAscent == 11

\* Face.Glyph: the rectangle of the glyph drawn with the dot at (x, y)
glyphRect(x, y) ==
    [MinX |-> x, MinY |-> y - GlyphAscent,
     MaxX |-> x + GlyphWidth, MaxY |-> y - GlyphAscent + GlyphHeight]

\* Rectangle.Intersect; an empty intersection is the zero rectangle
Intersect(r, q) ==
    LET i == [MinX |-> IF r.MinX < q.MinX THEN q.MinX ELSE r.MinX,
              MinY |-> IF r.MinY < q.MinY THEN q.MinY ELSE r.MinY,
              MaxX |-> IF r.MaxX > q.MaxX THEN q.MaxX ELSE r.MaxX,
              MaxY |-> IF r.MaxY > q.MaxY THEN q.MaxY ELSE r.MaxY]
    IN  IF i.MinX >= i.MaxX \/ i.MinY >= i.MaxY
        THEN [MinX |-> 0, MinY |-> 0, MaxX |-> 0, MaxY |-> 0]
        ELSE i

\* draw.DrawMask of one glyph: the glyph's rectangle is clipped to the bounds of
\* the image and the pixels of the clipped rectangle are written (the mask of
\* the glyph decides which of them change; all of them count as written).
drawGlyph(im, x, y, c) ==
    LET r == Intersect(glyphRect(x, y), im.Rect)
    IN  [im EXCEPT
           !.Pix = [k \in DOMAIN @ |->
                       IF \E px \in r.MinX..(r.MaxX - 1), py \in r.MinY..(r.MaxY - 1) :
                              k = (PixOffset(im, px, py) \div 4) + 1
                       THEN c ELSE @[k]],
           !.W = @ \cup {[x |-> px, y |-> py, i |-> PixOffset(im, px, py)] :
                            px \in r.MinX..(r.MaxX - 1), py \in r.MinY..(r.MaxY - 1)}]

\* Drawer.DrawString: the glyphs of the text from the i-th on, the dot at (x, y)
RECURSIVE drawString(_, _, _, _, _, _)
drawString(im, txt, i, x, y, c) ==
    IF i > Len(txt) THEN im
    ELSE drawString(drawGlyph(im, x, y, c), txt, i + 1, x + GlyphAdvance, y, c)

\* drawText: the dot is at (int(X), int(Y + FontSize))
drawText(im, op) ==
    drawString(im, op.Text, 1, op.Rect.X, op.Rect.Y + op.FontSize, op.Color)

\* Rasterize: the switch on op.Kind; a ClipRect draws nothing
rasterOp(im, op) ==
    CASE op.Kind = "FillRect" -> fillRect(im, op)
      [] op.Kind = "StrokeRect" -> strokeRect(im, op)
      [] op.Kind = "DrawText" -> drawText(im, op)
      [] OTHER -> im

----
\* SpecRaster: Rasterize(list, width, height), one op of the list a step.

\* Rects inside the image, across its edges, beside it, larger than it, and of
\* negative size.
RasterRects ==
    {Rect(0, 0, 1, 1), Rect(0 - 2, 0 - 2, 4, 4), Rect(1, 1, 4, 4), Rect(0 - 2, 0, 1, 2),
     Rect(0, 0, 0 - 1, 0 - 1), Rect(5, 5, 2, 2), Rect(0, 0 - 12, 9, 3),
     Rect(0 - 8, 0 - 10, 9, 12)}

RasterOps ==
    {PaintOp("FillRect", r, Color(255, 0, 0, 255), "", 0) : r \in RasterRects}
    \cup {PaintOp("StrokeRect", r, Color(0, 0, 255, 255), "", 0) : r \in RasterRects}
    \cup {PaintOp("DrawText", r, ColorBlack, "TT", 12) : r \in RasterRects}
    \cup {PaintOp("ClipRect", Rect(0, 0, 1, 1), NoColor, "", 0)}

RECURSIVE RasterLists(_)
RasterLists(n) ==
    IF n = 0 THEN {NewPaintList}
    ELSE LET S == RasterLists(n - 1)
         IN  S \cup {[Ops |-> Append(l.Ops, op)] : l \in S, op \in RasterOps}

InitRaster == FrontIdle /\ BackIdle /\ pc = "raster"

\* Rasterize is called: img := image.NewRGBA(image.Rect(0, 0, width, height))
RasterStart ==
    /\ pc = "raster"
    /\ paintList' \in RasterLists(MaxOps)
    /\ \E w \in 0..MaxDim, h \in 0..MaxDim :
           /\ viewport' = [Width |-> w, Height |-> h]
           /\ image' = [NewRGBA(imageRect(0, 0, w, h)) EXCEPT !.W = {}]
    /\ opIdx' = 1
    /\ writes' = {}
    /\ pc' = "ops"
    /\ UNCHANGED <<frontVars, auxVars, cssVars, doc, stylesheet, layoutTree>>

\* One iteration of the loop over list.Ops, on an op of the kind.
RasterStep(kind) ==
    /\ opIdx <= Len(paintList.Ops)
    /\ paintList.Ops[opIdx].Kind = kind
    /\ \E im \in {rasterOp(image, paintList.Ops[opIdx])} :
           /\ image' = [im EXCEPT !.W = {}]
           /\ writes' = writes \cup im.W
    /\ opIdx' = opIdx + 1

\* case OpFillRect: fillRect(img, op)
RasterFillRect ==
    /\ pc = "ops"
    /\ RasterStep("FillRect")
    /\ UNCHANGED <<frontVars, auxVars, cssVars, pageVars, pc>>

\* case OpStrokeRect: strokeRect(img, op)
RasterStrokeRect ==
    /\ pc = "ops"
    /\ RasterStep("StrokeRect")
    /\ UNCHANGED <<frontVars, auxVars, cssVars, pageVars, pc>>

\* case OpDrawText: drawText(img, op)
RasterDrawText ==
    /\ pc = "ops"
    /\ RasterStep("DrawText")
    /\ UNCHANGED <<frontVars, auxVars, cssVars, pageVars, pc>>

\* case OpClipRect
RasterClipRect ==
    /\ pc = "ops"
    /\ RasterStep("ClipRect")
    /\ UNCHANGED <<frontVars, auxVars, cssVars, pageVars, pc>>

\* return img
RasterReturn ==
    /\ pc = "ops"
    /\ opIdx > Len(paintList.Ops)
    /\ pc' = "rasterized"
    /\ UNCHANGED <<frontVars, auxVars, cssVars, pageVars, rasterVars>>

NextRaster ==
    \/ RasterStart
    \/ RasterFillRect
    \/ RasterStrokeRect
    \/ RasterDrawText
    \/ RasterClipRect
    \/ RasterReturn

SpecRaster == InitRaster /\ [][NextRaster]_vars

----
\* C18

----
\* Vocabulary of the properties, continued.

\* The ids the step creates.
NewIDs == Len(dom.Nodes)..(Len(dom'.Nodes) - 1)

\* The step hands a token to the parser.
IsTokenStep == Len(toks') = Len(toks) + 1

\* The token the step hands to the parser.
NewToken == toks'[Len(toks')]

OnStack(id) == \E i \in 1..Len(stack) : stack[i] = id

\* The same after the step.
OnStackNext(id) == \E i \in 1..Len(stack') : stack'[i] = id

\* Node id lies below node a in the tree of d.
RECURSIVE DescendsIn(_, _, _)
DescendsIn(d, id, a) ==
    /\ HasNode(d, GetNode(d, id).Parent)
    /\ GetNode(d, id).Parent < id
    /\ (GetNode(d, id).Parent = a \/ DescendsIn(d, GetNode(d, id).Parent, a))

StrictlyIncreasing(q) == \A i, j \in 1..Len(q) : i < j => q[i] < q[j]

----
\* C22: node ids follow creation order.  In every state each node's ID is its
\* index in the arena, every child's id is greater than its parent's, and every
\* Children list is strictly increasing and in the order of the tokens that
\* created the children; in every step the nodes that exist keep their id and
\* what they are, so that no id is removed or used again.
C22_State ==
    \A id \in IDs :
        /\ Node(id).ID = id
        /\ Node(id).Parent # InvalidNodeID => Node(id).Parent < id
        /\ StrictlyIncreasing(Node(id).Children)
        /\ InDocumentOrder(Node(id).Children)
        /\ \A i \in 1..Len(Node(id).Children) : Node(id).Children[i] > id

C22_Kept ==
    /\ Len(dom'.Nodes) >= Len(dom.Nodes)
    /\ \A id \in IDs :
           /\ dom'.Nodes[id + 1].ID = id
           /\ dom'.Nodes[id + 1].Type = Node(id).Type
           /\ dom'.Nodes[id + 1].Tag = Node(id).Tag
           /\ dom'.Nodes[id + 1].Text = Node(id).Text

C22_CreationOrder == []C22_State /\ [][C22_Kept]_vars

\* An element of the input with a text and then an element as its children.
C22_Witness ==
    \E id \in IDs :
        /\ FromInput(id)
        /\ Len(Node(id).Children) >= 2
        /\ IsText(Node(id).Children[1])
        /\ IsElement(Node(id).Children[2])

----
\* C23: when the first tag of the input is the start tag <body>, the root is the
\* element of that token and no <html> is synthesised; and while that <body> is
\* open, a body-content start or self-closing tag creates one node only, its own
\* element, below the <body>: no second <body> comes into being.
C23_Tags == {i \in 1..Len(toks) : IsTag(toks[i])}

C23_Pre ==
    /\ C23_Tags # {}
    /\ toks[C5_Min(C23_Tags)].Type = "StartTag"
    /\ toks[C5_Min(C23_Tags)].Data = "body"

C23_Root ==
    C23_Pre =>
        /\ HasNode(dom, dom.Root)
        /\ Node(dom.Root).Tag = "body"
        /\ FromInput(dom.Root)
        /\ Origin(dom.Root).tok = C5_Min(C23_Tags)
        /\ Node(dom.Root).Parent = InvalidNodeID
        /\ \A id \in Elements("html") : FromInput(id)
        /\ \A id \in Elements("body") : FromInput(id) \/ ~OnStack(dom.Root)

C23_BodyContentStep ==
    (/\ C23_Pre
     /\ OnStack(dom.Root)
     /\ IsTokenStep
     /\ Opens(NewToken)
     /\ isBodyContent(NewToken.Data)) =>
        /\ Len(dom'.Nodes) = Len(dom.Nodes) + 1
        /\ dom'.Nodes[Len(dom'.Nodes)].Tag = NewToken.Data
        /\ DescendsIn(dom', Len(dom.Nodes), dom.Root)
        /\ Elements("body")' = Elements("body")

C23_ExplicitBody == []C23_Root /\ [][C23_BodyContentStep]_vars

\* <body>, then a body-content element, then another one inside it.
C23_Witness ==
    /\ C23_Pre
    /\ Elements("body") = {dom.Root}
    /\ \E id \in IDs :
           /\ isBodyContent(Node(id).Tag)
           /\ Descends(id, dom.Root)
           /\ Node(id).Parent # dom.Root
           /\ isBodyContent(Node(Node(id).Parent).Tag)

----
\* C28: the stack of open elements is an ancestor chain.  In every state it
\* holds ids of element nodes only, strictly increasing from the bottom; every
\* entry above the bottom has the entry below it as Parent and the bottom one
\* has no Parent.  In every step AppendChild is called only with the top of a
\* non-empty stack as parent: a node the step gives a Parent is new and gets a
\* valid element that was on the stack, or that the step itself opened; no
\* other node's Parent changes and only those parents' Children grow.
C28_Chain ==
    /\ \A i \in 1..Len(stack) : HasNode(dom, stack[i]) /\ IsElement(stack[i])
    /\ StrictlyIncreasing(stack)
    /\ \A i \in 2..Len(stack) : Node(stack[i]).Parent = stack[i - 1]
    /\ Len(stack) > 0 => Node(stack[1]).Parent = InvalidNodeID

C28_Appends ==
    /\ \A c \in NewIDs :
           LET parent == dom'.Nodes[c + 1].Parent
           IN  parent # InvalidNodeID =>
                   /\ HasNode(dom', parent)
                   /\ dom'.Nodes[parent + 1].Type = "Element"
                   /\ OnStack(parent) \/ parent \in NewIDs
                   /\ parent \in NewIDs => OnStackNext(parent)
    /\ \A id \in IDs :
           /\ dom'.Nodes[id + 1].Parent = Node(id).Parent
           /\ dom'.Nodes[id + 1].Children # Node(id).Children => OnStack(id)

C28_AncestorChain == []C28_Chain /\ [][C28_Appends]_vars

\* Three elements open, the lowest one synthesised.
C28_Witness ==
    /\ Len(stack) >= 3
    /\ ~FromInput(stack[1])
    /\ FromInput(stack[3])
    /\ Node(stack[3]).Parent = stack[2]

----
\* C30: the parser creates at most one element with the tag body, whether the
\* input names it or the parser synthesises it; a body-content start tag met
\* after </body> or </html> opens no second one.  Stated for the inputs that
\* name <body> at most once, where every other <body> is the parser's own.
C30_BodyTags == {i \in 1..Len(toks) : Opens(toks[i]) /\ toks[i].Data = "body"}

C30_OneBody ==
    Cardinality(C30_BodyTags) <= 1 => Cardinality(Elements("body")) <= 1

----
\* C25: after ComputeLayout, a node without an explicit height that has children
\* is as high as the larger of h0, the height it was given when it was
\* positioned (the viewport's for the root), and what it takes to hold its last
\* child: the child's bottom edge and bottom margin, measured from the node's
\* top, plus the node's bottom padding and margin.  A node with an explicit
\* height, or without children, has exactly h0.
C25_Given(n) ==
    IF n = layoutTree.Root THEN viewport.Height
    ELSE IF LNode(n).Style.Height.set THEN LNode(n).Style.Height.v
    ELSE estimateHeight(layoutTree, n)

C25_Last(n) == LNode(LNode(n).Children[Len(LNode(n).Children)])

C25_Needed(n) ==
    C25_Last(n).Rect.Y + C25_Last(n).Rect.H + C25_Last(n).Style.Margin.Bottom
    - LNode(n).Rect.Y + LNode(n).Style.Padding.Bottom + LNode(n).Style.Margin.Bottom

C25_Grows(n) == ~LNode(n).Style.Height.set /\ Len(LNode(n).Children) > 0

C25_AutoHeight ==
    LaidOut =>
        \A n \in LayoutIDs :
            LNode(n).Rect.H =
                IF C25_Grows(n) /\ C25_Needed(n) > C25_Given(n)
                THEN C25_Needed(n) ELSE C25_Given(n)

\* A child that grew beyond its estimate under a root that kept the viewport's
\* height although its children need less, and a node with an explicit height.
C25_Witness ==
    /\ LaidOut
    /\ \E n \in LayoutIDs :
           /\ n # layoutTree.Root
           /\ C25_Grows(n)
           /\ LNode(n).Rect.H > C25_Given(n)
    /\ C25_Grows(layoutTree.Root)
    /\ C25_Needed(layoutTree.Root) < LNode(layoutTree.Root).Rect.H

----
\* SpecFlow: BuildLayoutTree and ComputeLayout, as Render calls them, on
\* documents with elements that have both children and later siblings, under
\* stylesheets whose margins, paddings and heights are not negative.

\* The tokens the documents are parsed from.
FlowTokens ==
    {[Type |-> "StartTag", Data |-> "div",
      Attributes |-> <<[Key |-> "class", Value |-> "c"]>>],
     [Type |-> "StartTag", Data |-> "p", Attributes |-> <<[Key |-> "id", Value |-> "i"]>>],
     [Type |-> "EndTag", Data |-> "div", Attributes |-> <<>>],
     [Type |-> "Text", Data |-> "T", Attributes |-> <<>>]}

RECURSIVE FlowTokenSeqs(_)
FlowTokenSeqs(n) ==
    IF n = 0 THEN {<<>>}
    ELSE LET S == FlowTokenSeqs(n - 1)
         IN  S \cup {Append(q, tok) : q \in S, tok \in FlowTokens}

FlowDocuments ==
    {parseTokens(NewParser, q, 1).dom :
        q \in {r \in FlowTokenSeqs(MaxFlowTokens) : NoTextRun(r)}}

\* The rules the stylesheets are written from.
FlowRules ==
    {"div{margin:10px 0}",
     "div{padding:5px}",
     ".c{height:50px}",
     "p{margin-top:4px}",
     "#i{margin-bottom:6px;padding-top:2px}",
     "body{margin:3px;padding:5px}"}

RECURSIVE FlowTexts(_)
FlowTexts(n) ==
    IF n = 0 THEN {""}
    ELSE LET S == FlowTexts(n - 1) IN S \cup {x \o r : x \in S, r \in FlowRules}

FlowStylesheets ==
    {NilStylesheet} \cup {StylesheetPtr(Parse(x)) : x \in FlowTexts(MaxFlowRules)}

InitFlow == FrontIdle /\ BackIdle /\ pc = "flow"

\* Render is called.
FlowStart ==
    /\ pc = "flow"
    /\ doc' \in FlowDocuments
    /\ stylesheet' \in FlowStylesheets
    /\ viewport' \in Viewports
    /\ pc' = "build"
    /\ UNCHANGED <<frontVars, auxVars, cssVars, rasterVars, layoutTree, paintList>>

NextFlow ==
    \/ FlowStart
    \/ RenderBuild
    \/ RenderLayout

SpecFlow == InitFlow /\ [][NextFlow]_vars

----
\* C29: when no margin, padding or explicit height is negative, consecutive
\* siblings do not overlap vertically after ComputeLayout: the later one begins
\* at or below the bottom edge of the earlier one, taken with its final height.
C29_NonNegative ==
    \A n \in LayoutIDs :
        /\ \A e \in {"Top", "Right", "Bottom", "Left"} :
               LNode(n).Style.Margin[e] >= 0 /\ LNode(n).Style.Padding[e] >= 0
        /\ LNode(n).Style.Height.set => LNode(n).Style.Height.v >= 0

C29_NoOverlap ==
    (LaidOut /\ C29_NonNegative) =>
        \A n \in LayoutIDs :
            \A i \in 1..(Len(LNode(n).Children) - 1) :
                LET a == LNode(LNode(n).Children[i])
                    b == LNode(LNode(n).Children[i + 1])
                IN  b.Rect.Y >= a.Rect.Y + a.Rect.H

----
\* SpecStyle: computeStyle(node, parentStyle, stylesheet) (src/layout/build.go),
\* one test of a rule's selectors or one call of ApplyDeclaration a step.  The
\* stylesheet is what css.Parse returns for a text, or nil.

\* A node of a document that holds the element alone.
StyleElement(tag, attrs) ==
    GetNode(setAttributes(CreateElement(NewDOM, tag), 0, attrs), 0)

StyleNodes ==
    {StyleElement("p", <<[Key |-> "class", Value |-> "c"], [Key |-> "id", Value |-> "i"]>>),
     StyleElement("div", <<>>),
     GetNode(CreateText(NewDOM, "T"), 0)}

\* The computed styles of the parent.
StyleParents ==
    {DefaultStyle,
     [DefaultStyle EXCEPT !.Color = Color(0, 128, 0, 255), !.FontSize = 20,
                          !.Margin = Edges(9, 9, 9, 9)]}

\* The rules the stylesheets are written from.
StyleRules ==
    {"p{color:red}",
     ".c{color:blue}",
     "#i{color:green;color:yellow}",
     "div,.c{margin:1px;padding:1px 2px;border-width:1px 2px 3px}",
     "p{margin:1px 2px 3px 4px}",
     "#i{margin:auto;padding:50% 20%}",
     "p{border-width:1 2 3 4 5;padding:1px 50% 2px}",
     ".c{margin:5px -x}",
     "p{foo:1px;display:grid;width:auto}",
     "#i{height:;margin-top:x;padding-left:auto;font-size:big}",
     ".c{color:foo;background:#12345;background-color:#12;border-color:rgb(1,2)}",
     "p{color:rgba(300,1,2);border-color:rgb(1,x,3)}",
     "p{display:none;width:100px;height:50%;margin-top:7px;padding-left:3px;font-size:20px}",
     "#i{background:#0f0;border-color:rgb(1,2,3);background-color:transparent}",
     ".c{color:#blue}",
     "div{color:red}"}

RECURSIVE StyleTexts(_)
StyleTexts(n) ==
    IF n = 0 THEN {""}
    ELSE LET S == StyleTexts(n - 1) IN S \cup {x \o r : x \in S, r \in StyleRules}

StyleSheets ==
    {NilStylesheet} \cup {StylesheetPtr(Parse(x)) : x \in StyleTexts(MaxStyleRules)}

InitStyle == FrontIdle /\ CssIdle /\ PageIdle /\ RasterIdle /\ loader = <<>>
             /\ cascade = <<>> /\ pc = "style"

\* The rule of the running iteration of "for _, rule := range stylesheet.Rules".
StyleRule == cascade.sheet.v.Rules[cascade.r]

\* computeStyle is called: the default style with the inherited properties, and
\* the two early returns.
StyleStart ==
    /\ pc = "style"
    /\ \E node \in StyleNodes, parent \in StyleParents, sheet \in StyleSheets :
           /\ cascade' = [node |-> node, parent |-> parent, sheet |-> sheet,
                          r |-> 1, d |-> 1, style |-> inherit(parent),
                          before |-> inherit(parent), applied |-> <<>>]
           /\ pc' = IF node.Type # "Element" \/ ~sheet.set THEN "styled" ELSE "rules"
    /\ UNCHANGED <<frontVars, cssVars, pageVars, rasterVars, loader>>

\* if matchesSelector(node, rule.Selectors): it does
StyleMatch ==
    /\ pc = "rules"
    /\ cascade.r <= Len(cascade.sheet.v.Rules)
    /\ matchesSelector(cascade.node, StyleRule.Selectors)
    /\ cascade' = [cascade EXCEPT !.d = 1]
    /\ pc' = "decls"
    /\ UNCHANGED <<frontVars, cssVars, pageVars, rasterVars, loader>>

\* if matchesSelector(node, rule.Selectors): it does not
StyleSkip ==
    /\ pc = "rules"
    /\ cascade.r <= Len(cascade.sheet.v.Rules)
    /\ ~matchesSelector(cascade.node, StyleRule.Selectors)
    /\ cascade' = [cascade EXCEPT !.r = @ + 1]
    /\ UNCHANGED <<frontVars, cssVars, pageVars, rasterVars, loader, pc>>

\* css.ApplyDeclaration(&style, decl)
StyleApply ==
    /\ pc = "decls"
    /\ cascade.d <= Len(StyleRule.Declarations)
    /\ cascade' = [cascade EXCEPT
                       !.style = ApplyDeclaration(@, StyleRule.Declarations[cascade.d]),
                       !.before = cascade.style,
                       !.applied = Append(@, StyleRule.Declarations[cascade.d]),
                       !.d = @ + 1]
    /\ UNCHANGED <<frontVars, cssVars, pageVars, rasterVars, loader, pc>>

\* The declarations of the rule are used up.
StyleRuleEnd ==
    /\ pc = "decls"
    /\ cascade.d > Len(StyleRule.Declarations)
    /\ cascade' = [cascade EXCEPT !.r = @ + 1]
    /\ pc' = "rules"
    /\ UNCHANGED <<frontVars, cssVars, pageVars, rasterVars, loader>>

\* The rules are used up: return style
StyleReturn ==
    /\ pc = "rules"
    /\ cascade.r > Len(cascade.sheet.v.Rules)
    /\ pc' = "styled"
    /\ UNCHANGED <<frontVars, cssVars, pageVars, rasterVars, auxVars>>

NextStyle ==
    \/ StyleStart
    \/ StyleMatch
    \/ StyleSkip
    \/ StyleApply
    \/ StyleRuleEnd
    \/ StyleReturn

SpecStyle == InitStyle /\ [][NextStyle]_vars

\* The steps of SpecStyle add up to computeStyle.
StepsAreComputeStyle ==
    pc = "styled" =>
        cascade.style = computeStyle(cascade.node, cascade.parent, cascade.sheet)

\* ApplyDeclaration has been called; the declaration of its last call.
Applied == pc \in {"rules", "decls", "styled"} /\ cascade.applied # <<>>

LastApplied == cascade.applied[Len(cascade.applied)]

----
\* C24: the matching rules are applied in the order of the stylesheet, without
\* specificity.  Of the declarations of the rules that match the element, tag,
\* class or id selector alike, the last one that names a property decides its
\* computed value: a later rule overrides an earlier one and, within a rule, a
\* later declaration an earlier one.
C24_Matches(node, rule) ==
    \E k \in 1..Len(rule.Selectors) :
        LET sel == rule.Selectors[k]
        IN  \/ sel.Type = "Tag" /\ sel.Value = node.Tag
            \/ sel.Type = "Class" /\ "class" \in DOMAIN node.Attr
               /\ node.Attr["class"] = sel.Value
            \/ sel.Type = "ID" /\ "id" \in DOMAIN node.Attr /\ node.Attr["id"] = sel.Value

\* The declarations of the matching rules from the i-th rule on, in order.
RECURSIVE C24_MatchedFrom(_)
C24_MatchedFrom(i) ==
    IF ~cascade.sheet.set \/ i > Len(cascade.sheet.v.Rules) THEN <<>>
    ELSE IF C24_Matches(cascade.node, cascade.sheet.v.Rules[i])
    THEN cascade.sheet.v.Rules[i].Declarations \o C24_MatchedFrom(i + 1)
    ELSE C24_MatchedFrom(i + 1)

\* The last matching declaration of one of the properties is property: value.
C24_LastSets(properties, property, value) ==
    \E i \in 1..Len(C24_MatchedFrom(1)) :
        /\ C24_MatchedFrom(1)[i].Property = property
        /\ C24_MatchedFrom(1)[i].Value = value
        /\ \A j \in (i + 1)..Len(C24_MatchedFrom(1)) :
               C24_MatchedFrom(1)[j].Property \notin properties

C24_StylesheetOrder ==
    (pc = "styled" /\ cascade.node.Type = "Element") =>
        /\ C24_LastSets({"color"}, "color", "red") =>
               cascade.style.Color = Color(255, 0, 0, 255)
        /\ C24_LastSets({"color"}, "color", "blue") =>
               cascade.style.Color = Color(0, 0, 255, 255)
        /\ C24_LastSets({"color"}, "color", "green") =>
               cascade.style.Color = Color(0, 128, 0, 255)
        /\ C24_LastSets({"color"}, "color", "yellow") =>
               cascade.style.Color = Color(255, 255, 0, 255)
        /\ C24_LastSets(EdgeProperties("margin"), "margin", "1px") =>
               cascade.style.Margin = Edges(1, 1, 1, 1)
        /\ C24_LastSets(EdgeProperties("margin"), "margin", "1px 2px 3px 4px") =>
               cascade.style.Margin = Edges(1, 2, 3, 4)

\* An id rule with two colours and then a tag rule with a third match the
\* element: it has the colour of the tag rule.
C24_Witness ==
    /\ pc = "styled"
    /\ cascade.sheet.set
    /\ Len(cascade.sheet.v.Rules) = 2
    /\ cascade.sheet.v.Rules[1].Selectors[1].Type = "ID"
    /\ cascade.sheet.v.Rules[2].Selectors[1].Type = "Tag"
    /\ Len(cascade.applied) = 3
    /\ \A i \in 1..3 : cascade.applied[i].Property = "color"
    /\ cascade.applied[2].Value = "yellow"
    /\ cascade.style.Color = Color(255, 0, 0, 255)

----
\* C26: margin, padding and border-width take their four edges from the Number
\* and Dimension tokens of the value: one, v, gives (v, v, v, v); two, a b, give
\* (a, b, a, b); three give (a, b, c, b); four give (a, b, c, d), as (top, right,
\* bottom, left); with none or more than four of them all four edges are 0,
\* whatever they were before.
C26_Shorthands == {"margin", "padding", "border-width"}

C26_Field(style, property) ==
    CASE property = "margin" -> style.Margin
      [] property = "padding" -> style.Padding
      [] property = "border-width" -> style.Border

C26_IsLength(tok) == tok.Type \in {"Number", "Dimension"}

\* The token's text holds a digit: it is a number.
C26_IsNumber(tok) ==
    C26_IsLength(tok) /\ \E i \in 1..Len(tok.Value) : IsDigit(SubSeq(tok.Value, i, i))

\* The number a token stands for, 0 for a text without digits.
C26_Value(tok) == ParseFloat(tok.Value).v

C26_Expected(q) ==
    CASE Len(q) = 1 ->
           [Top |-> C26_Value(q[1]), Right |-> C26_Value(q[1]),
            Bottom |-> C26_Value(q[1]), Left |-> C26_Value(q[1])]
      [] Len(q) = 2 ->
           [Top |-> C26_Value(q[1]), Right |-> C26_Value(q[2]),
            Bottom |-> C26_Value(q[1]), Left |-> C26_Value(q[2])]
      [] Len(q) = 3 ->
           [Top |-> C26_Value(q[1]), Right |-> C26_Value(q[2]),
            Bottom |-> C26_Value(q[3]), Left |-> C26_Value(q[2])]
      [] Len(q) = 4 ->
           [Top |-> C26_Value(q[1]), Right |-> C26_Value(q[2]),
            Bottom |-> C26_Value(q[3]), Left |-> C26_Value(q[4])]
      [] OTHER -> [Top |-> 0, Right |-> 0, Bottom |-> 0, Left |-> 0]

\* C26 as claimed: every token of type Number or Dimension is counted.
C26_EdgesByType ==
    (Applied /\ LastApplied.Property \in C26_Shorthands) =>
        C26_Field(cascade.style, LastApplied.Property)
            = C26_Expected(SelectSeq(LastApplied.Values, C26_IsLength))

\* C26 as amended: the Number and Dimension tokens whose text is a number are
\* counted; one without a digit, as the lexer makes of "-x" or "-", is not.
C26_EdgesOfNumbers ==
    (Applied /\ LastApplied.Property \in C26_Shorthands) =>
        C26_Field(cascade.style, LastApplied.Property)
            = C26_Expected(SelectSeq(LastApplied.Values, C26_IsNumber))

\* margin: auto after margin: 1px 2px 3px 4px.
C26_Witness ==
    /\ Applied
    /\ LastApplied.Property = "margin"
    /\ LastApplied.Value = "auto"
    /\ cascade.before.Margin = Edges(1, 2, 3, 4)
    /\ cascade.style.Margin = Edges(0, 0, 0, 0)

----
\* C27: ApplyDeclaration leaves the whole style as it was when the property is
\* not one it knows, and when the value of a display, width, height, margin-*,
\* padding-*, font-size, color, background(-color) or border-color declaration
\* cannot be parsed: a display keyword that is none of the four, no leading
\* numeric token, a colour keyword that is not a named colour, a hex string
\* whose length is not 3, 6 or 8, or rgb()/rgba() with fewer than three integer
\* components in 0..255.
C27_Recognised ==
    {"display", "margin", "padding", "border-width", "flex-grow", "justify-content",
     "align-items"} \cup LengthProperties \cup ColorProperties

C27_IsKeyword(d) == Len(d.Values) = 1 /\ d.Values[1].Type = "Ident"

C27_NoLength(d) ==
    Len(d.Values) = 0 \/ d.Values[1].Type \notin {"Number", "Dimension", "Percentage"}

C27_IsByte(tok) ==
    /\ tok.Type = "Number"
    /\ tok.Value # ""
    /\ AllDigitsOf(tok.Value, 10)
    /\ digitsValue(tok.Value, 10, 0) <= 255

C27_NoColor(d) ==
    \/ C27_IsKeyword(d) /\ d.Values[1].Value \notin NamedColors
    \/ /\ Len(d.Values) > 0
       /\ d.Values[1].Type = "Hash"
       /\ Len(d.Values[1].Value) \notin {3, 6, 8}
    \/ /\ Len(d.Values) > 0
       /\ d.Values[1].Type = "Function"
       /\ d.Values[1].Value \in {"rgb", "rgba"}
       /\ Cardinality({i \in 2..Len(d.Values) : C27_IsByte(d.Values[i])}) < 3

C27_Ignored(d) ==
    \/ d.Property \notin C27_Recognised
    \/ /\ d.Property = "display"
       /\ C27_IsKeyword(d)
       /\ d.Values[1].Value \notin {"block", "inline", "none", "flex"}
    \/ d.Property \in LengthProperties /\ C27_NoLength(d)
    \/ d.Property \in ColorProperties /\ C27_NoColor(d)

C27_Unchanged ==
    (Applied /\ C27_Ignored(LastApplied)) => cascade.style = cascade.before

----
\* SpecLoad: loadStylesheets(d, baseDir) of the CLI (src/main.go), one visit of
\* the walk a step.  The walk's recursion is kept as the list of the nodes still
\* to visit, the children of the visited node ahead of the rest.  The files are
\* what os.ReadFile finds at filepath.Join(baseDir, href): a text, or an error.

\* The tokens the documents are parsed from.
LoadTokens ==
    {[Type |-> "StartTag", Data |-> "link",
      Attributes |-> <<[Key |-> "rel", Value |-> "stylesheet"],
                       [Key |-> "href", Value |-> "a.css"]>>],
     [Type |-> "StartTag", Data |-> "link",
      Attributes |-> <<[Key |-> "rel", Value |-> "stylesheet"],
                       [Key |-> "href", Value |-> "b.css"]>>],
     [Type |-> "StartTag", Data |-> "link",
      Attributes |-> <<[Key |-> "rel", Value |-> "icon"],
                       [Key |-> "href", Value |-> "a.css"]>>],
     [Type |-> "StartTag", Data |-> "link",
      Attributes |-> <<[Key |-> "rel", Value |-> "stylesheet"]>>],
     [Type |-> "StartTag", Data |-> "style", Attributes |-> <<>>],
     [Type |-> "EndTag", Data |-> "style", Attributes |-> <<>>],
     [Type |-> "StartTag", Data |-> "div", Attributes |-> <<>>],
     [Type |-> "Text", Data |-> "p{color:red}", Attributes |-> <<>>]}

RECURSIVE LoadTokenSeqs(_)
LoadTokenSeqs(n) ==
    IF n = 0 THEN {<<>>}
    ELSE LET S == LoadTokenSeqs(n - 1)
         IN  S \cup {Append(q, tok) : q \in S, tok \in LoadTokens}

LoadDocuments ==
    {parseTokens(NewParser, q, 1).dom :
        q \in {r \in LoadTokenSeqs(MaxLoadTokens) : NoTextRun(r)}}

\* What os.ReadFile returns: [ok, data], ok = FALSE for err != nil.
LoadReads ==
    {[ok |-> FALSE, data |-> ""],
     [ok |-> TRUE, data |-> "div{margin:1px}"],
     [ok |-> TRUE, data |-> ".c{color:blue}#i{width:5px}"]}

LoadFileSystems == [{"a.css", "b.css"} -> LoadReads]

InitLoad == FrontIdle /\ BackIdle /\ pc = "load"

\* The node the walk visits next.
LoadNode == GetNode(doc, Head(loader.todo))

\* node.Type == dom.NodeTypeElement && node.Tag == "link", and
\* hasRel && rel == "stylesheet" && hasHref
isStylesheetLink(node) ==
    /\ node.Type = "Element"
    /\ node.Tag = "link"
    /\ "rel" \in DOMAIN node.Attr
    /\ node.Attr["rel"] = "stylesheet"
    /\ "href" \in DOMAIN node.Attr

\* for _, childID := range node.Children { walk(childID) }
walkChildren == LoadNode.Children \o Tail(loader.todo)

\* loadStylesheets is called: walk(d.Root), which returns at once for no node.
LoadStart ==
    /\ pc = "load"
    /\ doc' \in LoadDocuments
    /\ \E files \in LoadFileSystems :
           loader' = [files |-> files,
                      todo |-> IF doc'.Root = InvalidNodeID THEN <<>> ELSE <<doc'.Root>>,
                      allRules |-> <<>>]
    /\ pc' = "walk"
    /\ UNCHANGED <<frontVars, cssVars, rasterVars, cascade, stylesheet, viewport,
                   layoutTree, paintList>>

\* The walk visits a stylesheet link whose file is read: the rules css.Parse
\* returns for it are appended.
LoadLink ==
    /\ pc = "walk"
    /\ loader.todo # <<>>
    /\ isStylesheetLink(LoadNode)
    /\ loader.files[LoadNode.Attr["href"]].ok
    /\ loader' = [loader EXCEPT
                      !.allRules = @ \o Parse(loader.files[LoadNode.Attr["href"]].data).Rules,
                      !.todo = walkChildren]
    /\ UNCHANGED <<frontVars, cssVars, pageVars, rasterVars, cascade, pc>>

\* The walk visits a stylesheet link whose file cannot be read.
LoadFetchFailed ==
    /\ pc = "walk"
    /\ loader.todo # <<>>
    /\ isStylesheetLink(LoadNode)
    /\ ~loader.files[LoadNode.Attr["href"]].ok
    /\ loader' = [loader EXCEPT !.todo = walkChildren]
    /\ UNCHANGED <<frontVars, cssVars, pageVars, rasterVars, cascade, pc>>

\* The walk visits any other node.
LoadVisit ==
    /\ pc = "walk"
    /\ loader.todo # <<>>
    /\ ~isStylesheetLink(LoadNode)
    /\ loader' = [loader EXCEPT !.todo = walkChildren]
    /\ UNCHANGED <<frontVars, cssVars, pageVars, rasterVars, cascade, pc>>

\* The walk is over: nil for no rules, else &css.Stylesheet{Rules: allRules}.
LoadReturn ==
    /\ pc = "walk"
    /\ loader.todo = <<>>
    /\ stylesheet' = IF Len(loader.allRules) = 0 THEN NilStylesheet
                     ELSE StylesheetPtr([Rules |-> loader.allRules])
    /\ pc' = "loaded"
    /\ UNCHANGED <<frontVars, cssVars, rasterVars, auxVars, doc, viewport, layoutTree,
                   paintList>>

NextLoad ==
    \/ LoadStart
    \/ LoadLink
    \/ LoadFetchFailed
    \/ LoadVisit
    \/ LoadReturn

SpecLoad == InitLoad /\ [][NextLoad]_vars

----
\* C21: the stylesheet the CLI hands to the layout stage holds, in the document
\* order of the DOM (depth first, a node before its children), the rules parsed
\* from every <link rel="stylesheet" href> whose resource could be fetched and
\* from the inline text of every <style> element; a resource that cannot be
\* fetched adds nothing and leaves the rules of the others as they are.

\* The text of the Text children of a node from the i-th child on.
RECURSIVE C21_InlineText(_, _)
C21_InlineText(node, i) ==
    IF i > Len(node.Children) THEN ""
    ELSE (IF GetNode(doc, node.Children[i]).Type = "Text"
          THEN GetNode(doc, node.Children[i]).Text ELSE "")
         \o C21_InlineText(node, i + 1)

\* The rules a node itself contributes.
C21_Own(node) ==
    IF node.Type = "Element" /\ node.Tag = "link" /\ "rel" \in DOMAIN node.Attr
       /\ "href" \in DOMAIN node.Attr /\ node.Attr["rel"] = "stylesheet"
    THEN IF loader.files[node.Attr["href"]].ok
         THEN Parse(loader.files[node.Attr["href"]].data).Rules
         ELSE <<>>
    ELSE IF node.Type = "Element" /\ node.Tag = "style"
    THEN Parse(C21_InlineText(node, 1)).Rules
    ELSE <<>>

\* The rules of the subtree of a node, and of the children from the i-th on.
RECURSIVE C21_Rules(_)
RECURSIVE C21_ChildRules(_, _)
C21_Rules(id) == C21_Own(GetNode(doc, id)) \o C21_ChildRules(GetNode(doc, id), 1)

C21_ChildRules(node, i) ==
    IF i > Len(node.Children) THEN <<>>
    ELSE C21_Rules(node.Children[i]) \o C21_ChildRules(node, i + 1)

C21_Concatenation ==
    pc = "loaded" =>
        (IF stylesheet.set THEN stylesheet.v.Rules ELSE <<>>)
            = (IF doc.Root = InvalidNodeID THEN <<>> ELSE C21_Rules(doc.Root))

====
